---- MODULE Spec2Model ----
(***************************************************************************)
(* The SAP training tracker: the progress store (useUserProgress), the     *)
(* completion arithmetic of the course cards and course details, and the   *)
(* request wrapper fetchWithExponentialBackoff.                            *)
(*                                                                         *)
(* Two apps of the repository share the browser storage keys sap_user_id   *)
(* and sap_progress:                                                       *)
(*   "chapter"  src/app/page.tsx                    leaves are chapters    *)
(*   "module"   src/components/SAPTrainingComponents.tsx                   *)
(*              (and src/app/components/..., same hook) leaves are modules *)
(***************************************************************************)
EXTENDS Integers, Sequences, FiniteSets, TLC

VARIABLES
    variant,        \* which app this page load runs: "chapter" or "module"
    storage,        \* localStorage: [uid |-> item, prog |-> item]
    progress,       \* useState<ProgressEntry[]>: a JavaScript value
    loading,        \* useState(true)
    userId,         \* useState('Initializing...')
    effectPending,  \* the persistence effect's deps changed in the last commit
    crashed,        \* a render or a state updater threw: the tree is unmounted
    lastCall,       \* the arguments of the last updateProgress call
    nToggles,       \* updateProgress calls made so far
    nReloads,       \* page loads after the first
    nWrites,        \* setItem(PROGRESS_KEY, ...) calls made so far
    written,        \* the collection the last of them stringified
    fpc,            \* fetchWithExponentialBackoff: position of the call
    fi,             \* its loop variable i
    maxRetries,     \* its parameter maxRetries
    history,        \* outcomes of the fetches issued so far, in order
    waitBases,      \* 2^i * 1000 of every backoff wait so far, in order
    lastDelay,      \* the delay of the wait in progress (or of the last one)
    fresult,        \* what the call returned or raised
    apiKey,         \* NEXT_PUBLIC_GOOGLE_GEMINI_API_KEY || ""
    entryPoint,     \* the entry point that sends the request
    tpc,            \* its position: "idle", "requesting", "done"
    response,       \* what it shows the user
    card,           \* a CourseCard: its course prop and what it rendered
    queue,          \* React's update queue of progress: pending setProgress arguments
    tabs,           \* two tabs of the chapter app on one localStorage
    tutor,          \* VoiceAssistant: its state, its audio element, its requests
    ebook,          \* ChapterEbookView: its state and its generateEbook call
    baseline        \* what was stored, and which app ran, when the session began

storeVars == <<variant, storage, progress, loading, userId, effectPending,
               crashed, lastCall, nToggles, nReloads, nWrites, written>>
fetchVars == <<fpc, fi, maxRetries, history, waitBases, lastDelay, fresult>>
tutorVars == <<apiKey, entryPoint, tpc, response>>
viewVars == <<card>>
sessionVars == <<queue, tabs, tutor, ebook, baseline>>
vars == <<variant, storage, progress, loading, userId, effectPending,
          crashed, lastCall, nToggles, nReloads, nWrites, written,
          fpc, fi, maxRetries, history, waitBases, lastDelay, fresult,
          apiKey, entryPoint, tpc, response, card,
          queue, tabs, tutor, ebook, baseline>>

(***************************************************************************)
(* Bounds of the model.                                                    *)
(***************************************************************************)
\* the user opens the first MaxCourses courses of the catalog
MaxCourses == 1
\* and toggles the first MaxLeaves leaves of an opened course
MaxLeaves == 2
\* updateProgress calls per run
MaxToggles == 2
\* page loads after the first, each in either app
MaxReloads == 1
\* leaves a session before the first page load of the run has marked done
MaxPrior == 6
\* largest maxRetries a call of fetchWithExponentialBackoff is given
MaxRetriesBound == 5

(***************************************************************************)
(* Small helpers.                                                          *)
(***************************************************************************)
RECURSIVE Pow2(_)
Pow2(n) == IF n = 0 THEN 1 ELSE 2 * Pow2(n - 1)

Min(a, b) == IF a < b THEN a ELSE b

Range(s) == {s[k] : k \in 1..Len(s)}

Prefix(s, n) == SubSeq(s, 1, Min(n, Len(s)))

RECURSIVE Flatten(_)
Flatten(ss) == IF ss = <<>> THEN <<>> ELSE Head(ss) \o Flatten(Tail(ss))

(***************************************************************************)
(* The course catalogs (identifiers only; titles and texts play no part).  *)
(***************************************************************************)
Variants == {"chapter", "module"}

\* src/app/page.tsx SAP_COURSES: course -> module -> chapter ids
ChapterCatalog ==
    << [id |-> "mm", totalModules |-> 5, modules |-> <<
          [id |-> "mm-1", chapters |-> <<"mm-c1.1", "mm-c1.2">>],
          [id |-> "mm-2", chapters |-> <<"mm-c2.1", "mm-c2.2", "mm-c2.3">>],
          [id |-> "mm-3", chapters |-> <<"mm-c3.1", "mm-c3.2">>],
          [id |-> "mm-4", chapters |-> <<"mm-c4.1", "mm-c4.2">>],
          [id |-> "mm-5", chapters |-> <<"mm-c5.1", "mm-c5.2">>] >>],
       [id |-> "fico", totalModules |-> 6, modules |-> <<
          [id |-> "fi-1", chapters |-> <<"fi-c1.1", "fi-c1.2">>],
          [id |-> "fi-2", chapters |-> <<"fi-c2.1", "fi-c2.2">>],
          [id |-> "fi-3", chapters |-> <<"fi-c3.1", "fi-c3.2">>],
          [id |-> "co-4", chapters |-> <<"co-c4.1", "co-c4.2">>],
          [id |-> "co-5", chapters |-> <<"co-c5.1", "co-c5.2">>],
          [id |-> "co-6", chapters |-> <<"co-c6.1", "co-c6.2">>] >>],
       [id |-> "sd", totalModules |-> 4, modules |-> <<
          [id |-> "sd-1", chapters |-> <<"sd-c1.1", "sd-c1.2">>],
          [id |-> "sd-2", chapters |-> <<"sd-c2.1", "sd-c2.2">>],
          [id |-> "sd-3", chapters |-> <<"sd-c3.1", "sd-c3.2">>],
          [id |-> "sd-4", chapters |-> <<"sd-c4.1", "sd-c4.2">>] >>],
       [id |-> "abap", totalModules |-> 5, modules |-> <<
          [id |-> "abap-1", chapters |-> <<"abap-c1.1", "abap-c1.2">>],
          [id |-> "abap-2", chapters |-> <<"abap-c2.1", "abap-c2.2">>],
          [id |-> "abap-3", chapters |-> <<"abap-c3.1", "abap-c3.2">>],
          [id |-> "abap-4", chapters |-> <<"abap-c4.1", "abap-c4.2">>],
          [id |-> "abap-5", chapters |-> <<"abap-c5.1", "abap-c5.2">>] >>] >>

\* src/components/SAPTrainingComponents.tsx SAP_COURSES: course -> module ids
\* (a module has no chapters there)
ModuleCatalog ==
    << [id |-> "mm", totalModules |-> 5, modules |-> <<
          [id |-> "mm-1", chapters |-> <<>>],
          [id |-> "mm-2", chapters |-> <<>>],
          [id |-> "mm-3", chapters |-> <<>>],
          [id |-> "mm-4", chapters |-> <<>>],
          [id |-> "mm-5", chapters |-> <<>>] >>],
       [id |-> "fico", totalModules |-> 6, modules |-> <<
          [id |-> "fi-1", chapters |-> <<>>],
          [id |-> "fi-2", chapters |-> <<>>],
          [id |-> "fi-3", chapters |-> <<>>],
          [id |-> "co-4", chapters |-> <<>>],
          [id |-> "co-5", chapters |-> <<>>],
          [id |-> "co-6", chapters |-> <<>>] >>],
       [id |-> "sd", totalModules |-> 4, modules |-> <<
          [id |-> "sd-1", chapters |-> <<>>],
          [id |-> "sd-2", chapters |-> <<>>],
          [id |-> "sd-3", chapters |-> <<>>],
          [id |-> "sd-4", chapters |-> <<>>] >> ] >>

SAP_COURSES(v) == IF v = "chapter" THEN ChapterCatalog ELSE ModuleCatalog

\* SAP_COURSES.find(c => c.id === id): the index of the course, 0 for undefined
FindCourse(v, id) ==
    LET hits == {k \in 1..Len(SAP_COURSES(v)) : SAP_COURSES(v)[k].id = id}
    IN  IF hits = {} THEN 0 ELSE CHOOSE k \in hits : \A j \in hits : k <= j

\* the buttons of CourseDetail: one per chapter (page.tsx) or per module
\* (components), in catalog order; these are the leaf units of the course
LeafIds(v, course) ==
    IF v = "chapter"
    THEN Flatten([k \in 1..Len(course.modules) |-> course.modules[k].chapters])
    ELSE [k \in 1..Len(course.modules) |-> course.modules[k].id]

\* getTotalChapters: course.modules.reduce((t, m) => t + m.chapters.length, 0)
RECURSIVE SumChapters(_)
SumChapters(mods) ==
    IF mods = <<>> THEN 0 ELSE Len(Head(mods).chapters) + SumChapters(Tail(mods))

getTotalChapters(course) == SumChapters(course.modules)

(***************************************************************************)
(* JavaScript values.  Every value is a node [t, s, v]: t the type, s the   *)
(* text of a string or number, v the items of an array or the fields of an *)
(* object, in order.  JThrow stands for a thrown TypeError.                *)
(***************************************************************************)
JUndefined == [t |-> "undefined", s |-> "", v |-> <<>>]
JNull == [t |-> "null", s |-> "", v |-> <<>>]
JThrow == [t |-> "TypeError", s |-> "", v |-> <<>>]
JBool(x) == [t |-> "boolean", s |-> x, v |-> <<>>]
JNum(x) == [t |-> "number", s |-> x, v |-> <<>>]
JStr(x) == [t |-> "string", s |-> x, v |-> <<>>]
JArr(items) == [t |-> "array", s |-> "", v |-> items]
JField(key, val) == [t |-> "field", s |-> key, v |-> <<val>>]
JObj(fields) == [t |-> "object", s |-> "", v |-> fields]

IsNullish(x) == x.t \in {"undefined", "null"}
IsArray(x) == x.t = "array"

\* x.key for a value that is not null or undefined
Prop(x, key) ==
    IF x.t # "object" THEN JUndefined
    ELSE LET hits == {k \in 1..Len(x.v) : x.v[k].s = key}
         IN  IF hits = {} THEN JUndefined
             ELSE x.v[CHOOSE k \in hits : \A j \in hits : k >= j].v[1]

\* { ...x, key: val }
SetField(x, key, val) ==
    IF \E k \in 1..Len(x.v) : x.v[k].s = key
    THEN JObj([k \in 1..Len(x.v) |->
                  IF x.v[k].s = key THEN JField(key, val) ELSE x.v[k]])
    ELSE JObj(Append(x.v, JField(key, val)))

\* the ProgressEntry literal { courseId, completedModules }
ProgressEntry(courseId, ids) ==
    JObj(<< JField("courseId", JStr(courseId)),
            JField("completedModules",
                   JArr([k \in 1..Len(ids) |-> JStr(ids[k])])) >>)

(***************************************************************************)
(* JSON text, as the sequence of its tokens.                               *)
(***************************************************************************)
Punct(x) == [k |-> "punct", v |-> x]
TStr(x) == [k |-> "str", v |-> x]
TNum(x) == [k |-> "num", v |-> x]
TLit(x) == [k |-> "lit", v |-> x]
TJunk == [k |-> "junk", v |-> "?"]

RECURSIVE JoinComma(_)
JoinComma(parts) ==
    IF parts = <<>> THEN <<>>
    ELSE IF Len(parts) = 1 THEN parts[1]
    ELSE parts[1] \o <<Punct(",")>> \o JoinComma(Tail(parts))

\* JSON.stringify(x) for x null, boolean, number, string, array or object
RECURSIVE JSON_stringify(_)
JSON_stringify(x) ==
    CASE x.t = "string" -> <<TStr(x.s)>>
      [] x.t = "number" -> <<TNum(x.s)>>
      [] x.t = "boolean" -> <<TLit(x.s)>>
      [] x.t = "array" ->
            <<Punct("[")>>
            \o JoinComma([k \in 1..Len(x.v) |-> JSON_stringify(x.v[k])])
            \o <<Punct("]")>>
      [] x.t = "object" ->
            <<Punct("{")>>
            \o JoinComma([k \in 1..Len(x.v) |->
                   <<TStr(x.v[k].s), Punct(":")>> \o JSON_stringify(x.v[k].v[1])])
            \o <<Punct("}")>>
      [] OTHER -> <<TLit("null")>>

ParseFail == [ok |-> FALSE, val |-> JUndefined, next |-> 0]
ParseOk(val, next) == [ok |-> TRUE, val |-> val, next |-> next]
TokAt(toks, p) == IF p <= Len(toks) THEN toks[p] ELSE TJunk

RECURSIVE ParseValue(_, _)
RECURSIVE ParseElements(_, _, _)
RECURSIVE ParseMembers(_, _, _)

\* the value that starts at token p
ParseValue(toks, p) ==
    LET tok == TokAt(toks, p) IN
    CASE tok.k = "str" -> ParseOk(JStr(tok.v), p + 1)
      [] tok.k = "num" -> ParseOk(JNum(tok.v), p + 1)
      [] tok.k = "lit" ->
            IF tok.v = "null" THEN ParseOk(JNull, p + 1)
            ELSE ParseOk(JBool(tok.v), p + 1)
      [] tok = Punct("[") ->
            IF TokAt(toks, p + 1) = Punct("]") THEN ParseOk(JArr(<<>>), p + 2)
            ELSE ParseElements(toks, p + 1, <<>>)
      [] tok = Punct("{") ->
            IF TokAt(toks, p + 1) = Punct("}") THEN ParseOk(JObj(<<>>), p + 2)
            ELSE ParseMembers(toks, p + 1, <<>>)
      [] OTHER -> ParseFail

\* the rest of an array whose items so far are acc
ParseElements(toks, p, acc) ==
    LET r == ParseValue(toks, p) IN
    IF ~r.ok THEN ParseFail
    ELSE IF TokAt(toks, r.next) = Punct(",")
         THEN ParseElements(toks, r.next + 1, Append(acc, r.val))
    ELSE IF TokAt(toks, r.next) = Punct("]")
         THEN ParseOk(JArr(Append(acc, r.val)), r.next + 1)
    ELSE ParseFail

\* the rest of an object whose fields so far are acc
ParseMembers(toks, p, acc) ==
    IF TokAt(toks, p).k # "str" \/ TokAt(toks, p + 1) # Punct(":") THEN ParseFail
    ELSE LET r == ParseValue(toks, p + 2) IN
         IF ~r.ok THEN ParseFail
         ELSE IF TokAt(toks, r.next) = Punct(",")
              THEN ParseMembers(toks, r.next + 1,
                                Append(acc, JField(TokAt(toks, p).v, r.val)))
         ELSE IF TokAt(toks, r.next) = Punct("}")
              THEN ParseOk(JObj(Append(acc, JField(TokAt(toks, p).v, r.val))),
                           r.next + 1)
         ELSE ParseFail

\* JSON.parse(text): ok = FALSE stands for the SyntaxError it throws
JSON_parse(toks) ==
    LET r == ParseValue(toks, 1) IN
    IF r.ok /\ r.next = Len(toks) + 1
    THEN [ok |-> TRUE, val |-> r.val]
    ELSE [ok |-> FALSE, val |-> JUndefined]

(***************************************************************************)
(* updateProgress: the state updater handed to setProgress.                *)
(***************************************************************************)
\* newProgress.findIndex(p => p.courseId === courseId): 0 for -1, and -1 when
\* the callback throws on a null item met before any match
FindIndex(items, courseId) ==
    LET stops == {k \in 1..Len(items) :
                     IsNullish(items[k]) \/ Prop(items[k], "courseId") = JStr(courseId)}
    IN  IF stops = {} THEN 0
        ELSE LET k == CHOOSE k \in stops : \A j \in stops : k <= j
             IN  IF IsNullish(items[k]) THEN -1 ELSE k

\* newCompletedModules.includes(id)
Includes(items, id) == \E k \in 1..Len(items) : items[k] = JStr(id)

\* newCompletedModules.filter(x => x !== id)
FilterOut(items, id) ==
    LET Keep(x) == x # JStr(id) IN SelectSeq(items, Keep)

\* updateProgress deleting the entry of a course whose list became empty
updateProgressDropEmpty(prevProgress, courseId, chapterId, isCompleted) ==
    IF ~IsArray(prevProgress) THEN JThrow
    ELSE
    LET newProgress == prevProgress.v
        courseIndex == FindIndex(newProgress, courseId)
    IN  IF courseIndex = -1 THEN JThrow
        ELSE IF courseIndex = 0
        THEN JArr(Append(newProgress,
                 ProgressEntry(courseId,
                               IF isCompleted THEN <<chapterId>> ELSE <<>>)))
        ELSE
        LET currentEntry == newProgress[courseIndex]
            completed == Prop(currentEntry, "completedModules")
        IN  IF ~IsArray(completed) THEN JThrow
            ELSE
            LET newCompletedModules ==
                    IF isCompleted /\ ~Includes(completed.v, chapterId)
                    THEN Append(completed.v, JStr(chapterId))
                    ELSE IF ~isCompleted
                    THEN FilterOut(completed.v, chapterId)
                    ELSE completed.v
            IN  IF newCompletedModules = <<>>
                THEN JArr([k \in 1..(Len(newProgress) - 1) |->
                             IF k < courseIndex THEN newProgress[k]
                             ELSE newProgress[k + 1]])
                ELSE JArr([newProgress EXCEPT ![courseIndex] =
                             SetField(currentEntry, "completedModules",
                                      JArr(newCompletedModules))])

\* updateProgress without the findIndex lookup: every call pushes a new entry
updateProgressAppendEntry(prevProgress, courseId, chapterId, isCompleted) ==
    IF ~IsArray(prevProgress) THEN JThrow
    ELSE JArr(Append(prevProgress.v,
                 ProgressEntry(courseId,
                               IF isCompleted THEN <<chapterId>> ELSE <<>>)))

\* updateProgress without the includes test: a second "done" pushes the id again
updateProgressAlwaysPush(prevProgress, courseId, chapterId, isCompleted) ==
    IF ~IsArray(prevProgress) THEN JThrow
    ELSE
    LET newProgress == prevProgress.v
        courseIndex == FindIndex(newProgress, courseId)
    IN  IF courseIndex = -1 THEN JThrow
        ELSE IF courseIndex = 0
        THEN JArr(Append(newProgress,
                 ProgressEntry(courseId,
                               IF isCompleted THEN <<chapterId>> ELSE <<>>)))
        ELSE
        LET currentEntry == newProgress[courseIndex]
            completed == Prop(currentEntry, "completedModules")
        IN  IF ~IsArray(completed) THEN JThrow
            ELSE
            LET newCompletedModules ==
                    IF isCompleted
                    THEN Append(completed.v, JStr(chapterId))
                    ELSE FilterOut(completed.v, chapterId)
            IN  JArr([newProgress EXCEPT ![courseIndex] =
                         SetField(currentEntry, "completedModules",
                                  JArr(newCompletedModules))])

\* an updater that rebuilds the entry it finds as it builds a new one: the
\* other ids of the list are gone, and the entry moves to the end
updateProgressRebuildEntry(prevProgress, courseId, chapterId, isCompleted) ==
    IF ~IsArray(prevProgress) THEN JThrow
    ELSE
    LET newProgress == prevProgress.v
        courseIndex == FindIndex(newProgress, courseId)
    IN  IF courseIndex = -1 THEN JThrow
        ELSE JArr(Append(SelectSeq(newProgress,
                                   LAMBDA x : Prop(x, "courseId") # JStr(courseId)),
                         ProgressEntry(courseId,
                                       IF isCompleted THEN <<chapterId>> ELSE <<>>)))

updateProgress(prevProgress, courseId, chapterId, isCompleted) ==
    IF ~IsArray(prevProgress) THEN JThrow
    ELSE
    LET newProgress == prevProgress.v
        courseIndex == FindIndex(newProgress, courseId)
    IN  IF courseIndex = -1 THEN JThrow
        ELSE IF courseIndex = 0
        THEN JArr(Append(newProgress,
                 ProgressEntry(courseId,
                               IF isCompleted THEN <<chapterId>> ELSE <<>>)))
        ELSE
        LET currentEntry == newProgress[courseIndex]
            completed == Prop(currentEntry, "completedModules")
        IN  IF ~IsArray(completed) THEN JThrow
            ELSE
            LET newCompletedModules ==
                    IF isCompleted /\ ~Includes(completed.v, chapterId)
                    THEN Append(completed.v, JStr(chapterId))
                    ELSE IF ~isCompleted
                    THEN FilterOut(completed.v, chapterId)
                    ELSE completed.v
            IN  JArr([newProgress EXCEPT ![courseIndex] =
                         SetField(currentEntry, "completedModules",
                                  JArr(newCompletedModules))])

(***************************************************************************)
(* What the components compute from the collection on every render.        *)
(***************************************************************************)
\* progress.find(p => p.courseId === course.id): the entry, JUndefined when
\* there is none, JThrow when progress has no find or the callback throws
FindEntry(prog, courseId) ==
    IF ~IsArray(prog) THEN JThrow
    ELSE LET k == FindIndex(prog.v, courseId)
         IN  IF k = -1 THEN JThrow ELSE IF k = 0 THEN JUndefined ELSE prog.v[k]

\* x.length || 0 for a value that is not null or undefined
LengthOr0(x) == IF IsArray(x) THEN Len(x.v) ELSE 0

\* progress?.completedModules.length || 0 throws on an entry without the list
CountThrows(entry) ==
    entry = JThrow
    \/ (entry # JUndefined /\ IsNullish(Prop(entry, "completedModules")))

completedCount(entry) ==
    IF entry = JUndefined THEN 0 ELSE LengthOr0(Prop(entry, "completedModules"))

\* the denominator: getTotalChapters(course) in page.tsx, the declared
\* course.totalModules in the module app
Denominator(v, course) ==
    IF v = "chapter" THEN getTotalChapters(course) ELSE course.totalModules

\* completionRatio, in percent, as the fraction num/den; kind tells a number
\* from the NaN or Infinity a division by zero gives
completionRatio(v, course, count) ==
    LET total == Denominator(v, course) IN
    IF v = "chapter"
    THEN IF total > 0 THEN [kind |-> "number", num |-> count * 100, den |-> total]
         ELSE [kind |-> "number", num |-> 0, den |-> 1]
    ELSE IF total # 0 THEN [kind |-> "number", num |-> count * 100, den |-> total]
         ELSE IF count = 0 THEN [kind |-> "NaN", num |-> 0, den |-> 0]
         ELSE [kind |-> "Infinity", num |-> count * 100, den |-> 0]

\* isCourseCompleted of the chapter app comparing the count with the number
\* of modules, as the module app does
isCourseCompletedByModules(v, course, count) ==
    count = Len(course.modules)

\* isCompleted of CourseCard, isCourseCompleted of CourseDetail
isCourseCompleted(v, course, count) ==
    IF v = "chapter"
    THEN count = getTotalChapters(course) /\ getTotalChapters(course) > 0
    ELSE count = course.totalModules

\* isChapterCompleted / isModuleCompleted of CourseDetail:
\* progress?.completedModules.includes(id) || false
IsLeafCompleted(entry, id) ==
    entry # JUndefined /\ Includes(Prop(entry, "completedModules").v, id)

\* ... which throws when the entry's completedModules has no includes
LeafCheckThrows(entry) ==
    entry = JThrow
    \/ (entry # JUndefined /\ ~IsArray(Prop(entry, "completedModules")))

\* isModuleCompleted of the chapter app's CourseDetail:
\* module.chapters.filter(c => isChapterCompleted(c.id)).length
\*    === module.chapters.length
isModuleCompleted(entry, module) ==
    Cardinality({k \in 1..Len(module.chapters) :
                    IsLeafCompleted(entry, module.chapters[k])})
    = Len(module.chapters)

\* the filter callback of App's completedCourses (page.tsx), for one item
CompletedCoursesThrows(p) ==
    IsNullish(p)
    \/ LET c == Prop(p, "courseId") IN
       /\ c.t = "string"
       /\ FindCourse("chapter", c.s) # 0
       /\ getTotalChapters(ChapterCatalog[FindCourse("chapter", c.s)]) > 0
       /\ IsNullish(Prop(p, "completedModules"))

\* the filter callback of App's completedCourses, for an item that is not
\* null: the entry counts as a completed course (page.tsx; the module app
\* with a dashboard is src/app/components/SAPTrainingComponents.tsx)
CountsAsCompleted(v, p) ==
    LET c == Prop(p, "courseId")
        k == IF c.t = "string" THEN FindCourse(v, c.s) ELSE 0
        list == Prop(p, "completedModules")
    IN  /\ k # 0
        /\ IsArray(list)
        /\ IF v = "chapter"
           THEN /\ getTotalChapters(SAP_COURSES(v)[k]) > 0
                /\ Len(list.v) = getTotalChapters(SAP_COURSES(v)[k])
           ELSE Len(list.v) = SAP_COURSES(v)[k].totalModules

\* progress.filter(...).length
completedCourses(v, prog) ==
    Cardinality({k \in 1..Len(prog.v) : CountsAsCompleted(v, prog.v[k])})

\* App's completionRatio, in percent, as the fraction num/den
overallCompletionRatio(v, prog) ==
    LET totalCourses == Len(SAP_COURSES(v)) IN
    IF totalCourses > 0
    THEN [kind |-> "number", num |-> completedCourses(v, prog) * 100,
          den |-> totalCourses]
    ELSE [kind |-> "number", num |-> 0, den |-> 1]

\* the dashboard render throws
RenderThrows(v, prog) ==
    \/ ~IsArray(prog)
    \/ (v = "chapter" /\ \E k \in 1..Len(prog.v) : CompletedCoursesThrows(prog.v[k]))
    \/ \E k \in 1..Len(SAP_COURSES(v)) :
           CountThrows(FindEntry(prog, SAP_COURSES(v)[k].id))

\* the CourseDetail render of one course throws
DetailThrows(v, prog, course) ==
    LET entry == FindEntry(prog, course.id) IN
    \/ CountThrows(entry)
    \/ (LeafIds(v, course) # <<>> /\ LeafCheckThrows(entry))

(***************************************************************************)
(* localStorage.  An item is absent (getItem gives null) or holds a text:  *)
(* a string for sap_user_id, JSON tokens for sap_progress.                 *)
(***************************************************************************)
Absent == [present |-> FALSE, text |-> <<>>]
Item(text) == [present |-> TRUE, text |-> text]

\* crypto.randomUUID() draws one of these
UUIDs == {"uuid-a", "uuid-b"}

\* the collection a session leaves behind that marked the leaves ids of a
\* course done, one click after the other
RECURSIVE MarkAll(_, _, _)
MarkAll(prog, courseId, ids) ==
    IF ids = <<>> THEN prog
    ELSE MarkAll(updateProgress(prog, courseId, Head(ids), TRUE), courseId, Tail(ids))

\* the courses the user opens and the leaves toggled there
OpenCourses(v) == Prefix(SAP_COURSES(v), MaxCourses)
OpenLeaves(v, course) == Prefix(LeafIds(v, course), MaxLeaves)

\* sap_progress as an earlier session of either app wrote it
PriorTexts ==
    {JSON_stringify(MarkAll(JArr(<<>>), c.id, Prefix(LeafIds(v, c), k))) :
        <<v, c, k>> \in
            {<<v, c, k>> \in Variants
                             \X (Range(OpenCourses("chapter")) \cup Range(OpenCourses("module")))
                             \X (0..MaxPrior) : c \in Range(OpenCourses(v))}}

\* four entries for mm, each with all five module ids of mm
DuplicateEntriesText ==
    JSON_stringify(JArr([k \in 1..4 |->
        ProgressEntry("mm", LeafIds("module", ModuleCatalog[1]))]))

\* sap_progress damaged or written by something else
ForeignTexts ==
    { <<>>,
      <<TJunk>>,
      <<Punct("["), Punct("{"), TStr("courseId")>>,
      <<TLit("null")>>,
      <<TNum("5")>>,
      <<Punct("{"), Punct("}")>>,
      <<Punct("["), TLit("null"), Punct("]")>>,
      <<Punct("["), Punct("{"), TStr("courseId"), Punct(":"), TStr("mm"),
        Punct("}"), Punct("]")>>,
      DuplicateEntriesText }

InitialProgressItems ==
    {Absent} \cup {Item(t) : t \in PriorTexts \cup ForeignTexts}

NoCall == [n |-> 0, courseId |-> "", chapterId |-> "", isCompleted |-> FALSE,
           before |-> JUndefined, once |-> JUndefined]

FetchIdle ==
    /\ fpc = "idle"
    /\ fi = 0
    /\ maxRetries = 0
    /\ history = <<>>
    /\ waitBases = <<>>
    /\ lastDelay = 0
    /\ fresult = "none"

\* no CourseCard under study
NoCard == [shown |-> FALSE, course |-> [id |-> "", totalModules |-> 0, modules |-> <<>>],
           count |-> 0, ratio |-> [kind |-> "number", num |-> 0, den |-> 1],
           isCompleted |-> FALSE]

\* no request entry point is in use
TutorIdle ==
    /\ apiKey = "key"
    /\ entryPoint = "none"
    /\ tpc = "idle"
    /\ response = ""

\* a text the tutor shows: the text itself and, for an answer, the number of
\* the submission it answers
NoText == [text |-> "", n |-> 0]

\* VoiceAssistant after mount: useState('') for response, useState(false)
\* for loading and isSpeaking, and the new Audio() of the mount effect, which
\* is paused and has no src.  speech holds the handleSpeak calls in flight,
\* atSend what handleSubmit left at the moment it sent its request.
TutorMounted ==
    [response |-> NoText, loading |-> FALSE, isSpeaking |-> FALSE,
     audio |-> [paused |-> TRUE, src |-> NoText, started |-> FALSE],
     speech |-> {}, nSubmits |-> 0, nSpeaks |-> 0,
     atSend |-> [n |-> 0, wasPlaying |-> FALSE, playing |-> FALSE,
                 isSpeaking |-> FALSE],
     unhandled |-> FALSE]

\* ChapterEbookView at its first render: useState(''), useState(false),
\* useState(null)
EbookMounted ==
    [ebookContent |-> "", loading |-> FALSE, error |-> JNull,
     pc |-> "mounted", nCalls |-> 0, unhandled |-> FALSE]

\* no second tab is open
NoTabs == [tab |-> <<>>, lastWriter |-> 0, nToggles |-> 0]

\* no earlier session is on record
NoBaseline == [variant |-> "none", prog |-> Absent]

\* nothing queued, one tab, tutor and e-book view untouched
SessionIdle ==
    /\ queue = <<>>
    /\ tabs = NoTabs
    /\ tutor = TutorMounted
    /\ ebook = EbookMounted

(***************************************************************************)
(* The progress store: useUserProgress and the page around it.             *)
(***************************************************************************)
\* the first render of a page load: the three useState initial values
FirstRender ==
    /\ progress = JArr(<<>>)
    /\ loading = TRUE
    /\ userId = "Initializing..."

Init ==
    /\ variant \in Variants
    /\ storage \in [uid : {Absent, Item("uuid-a")}, prog : InitialProgressItems]
    /\ FirstRender
    /\ effectPending = FALSE
    /\ crashed = FALSE
    /\ lastCall = NoCall
    /\ nToggles = 0
    /\ nReloads = 0
    /\ nWrites = 0
    /\ written = JUndefined
    /\ FetchIdle
    /\ TutorIdle
    /\ card = NoCard
    /\ SessionIdle
    /\ baseline = [variant |-> variant, prog |-> storage.prog]

\* the second effect storing String(progress) in place of its JSON text
PersistEffectBodyToString(loadingSeen, progressSeen, store) ==
    IF ~loadingSeen
    THEN [store EXCEPT !.prog =
             Item(IF progressSeen.v = <<>> THEN <<>> ELSE <<TJunk>>)]
    ELSE store

\* the second effect writing only while nothing is stored: the first writer
\* of the key wins
PersistEffectBodyFirstWriter(loadingSeen, progressSeen, store) ==
    IF ~loadingSeen /\ ~store.prog.present
    THEN [store EXCEPT !.prog = Item(JSON_stringify(progressSeen))]
    ELSE store

\* the second effect without its if (!loading)
PersistEffectBodyUnguarded(loadingSeen, progressSeen, store) ==
    [store EXCEPT !.prog = Item(JSON_stringify(progressSeen))]

\* the body of the second effect, run with the loading and progress of the
\* render that scheduled it: the storage after it
PersistEffectBody(loadingSeen, progressSeen, store) ==
    IF ~loadingSeen
    THEN [store EXCEPT !.prog = Item(JSON_stringify(progressSeen))]
    ELSE store

\* the first effect without its try/catch: the SyntaxError escapes
LoadedProgressNoCatch(item, current) ==
    IF item.present /\ item.text # <<>>
    THEN IF JSON_parse(item.text).ok THEN JSON_parse(item.text).val ELSE JThrow
    ELSE current

\* what the first effect hands to setProgress: the parsed text, [] when the
\* parse throws, and nothing (the state stays []) when no text is stored
LoadedProgress(item, current) ==
    IF item.present /\ item.text # <<>>
    THEN IF JSON_parse(item.text).ok THEN JSON_parse(item.text).val ELSE JArr(<<>>)
    ELSE current

\* the first effect without its if (!storedUserId): every page load draws
\* and stores a new id
InitEffectAlwaysGenerates ==
    /\ loading
    /\ ~crashed
    /\ \E fresh \in UUIDs :
          LET withUid == [storage EXCEPT !.uid = Item(fresh)]
          IN  /\ userId' = fresh
              /\ storage' = PersistEffectBody(loading, progress, withUid)
    /\ progress' = LoadedProgress(storage.prog, progress)
    /\ loading' = FALSE
    /\ crashed' = RenderThrows(variant, progress')
    /\ effectPending' = ~crashed'
    /\ UNCHANGED <<variant, lastCall, nToggles, nReloads, nWrites, written>>
    /\ UNCHANGED fetchVars
    /\ UNCHANGED tutorVars
    /\ UNCHANGED viewVars
    /\ UNCHANGED sessionVars

\* Mount: both effects after the first render, in order, and the re-render
\* their state updates cause.  The second effect still sees loading = true.
InitEffect ==
    /\ loading
    /\ ~crashed
    /\ \E fresh \in UUIDs :
          LET storedUserId == IF storage.uid.present /\ storage.uid.text # ""
                              THEN storage.uid.text ELSE fresh
              withUid == [storage EXCEPT !.uid = Item(storedUserId)]
          IN  /\ userId' = storedUserId
              /\ storage' = PersistEffectBody(loading, progress, withUid)
    /\ progress' = LoadedProgress(storage.prog, progress)
    /\ loading' = FALSE
    /\ crashed' = RenderThrows(variant, progress')
    /\ effectPending' = ~crashed'
    /\ UNCHANGED <<variant, lastCall, nToggles, nReloads, nWrites, written>>
    /\ UNCHANGED fetchVars
    /\ UNCHANGED tutorVars
    /\ UNCHANGED viewVars
    /\ UNCHANGED sessionVars

\* the second effect, after a commit in which progress or loading changed
PersistEffect ==
    /\ effectPending
    /\ ~crashed
    /\ storage' = PersistEffectBody(loading, progress, storage)
    /\ nWrites' = IF loading THEN nWrites ELSE nWrites + 1
    /\ written' = IF loading THEN written ELSE progress
    /\ effectPending' = FALSE
    /\ UNCHANGED <<variant, progress, loading, userId, crashed, lastCall,
                   nToggles, nReloads>>
    /\ UNCHANGED fetchVars
    /\ UNCHANGED tutorVars
    /\ UNCHANGED viewVars
    /\ UNCHANGED sessionVars

\* an updater that hands back prevProgress itself when nothing changed:
\* React then sees the same state and schedules no effect
SetProgressIfChanged(next, course) ==
    /\ progress' = IF next = JThrow THEN progress ELSE next
    /\ crashed' = \/ next = JThrow
                  \/ RenderThrows(variant, next)
                  \/ DetailThrows(variant, next, course)
    /\ effectPending' = (~crashed' /\ next # progress)

\* setProgress(updater): the state after the updater ran and the page was
\* rendered again; every call installs a new array, so the effect is due
SetProgress(next, course) ==
    /\ progress' = IF next = JThrow THEN progress ELSE next
    /\ crashed' = \/ next = JThrow
                  \/ RenderThrows(variant, next)
                  \/ DetailThrows(variant, next, course)
    /\ effectPending' = ~crashed'

\* updateProgress(course.id, leafId, isCompleted) called from the rendered
\* CourseDetail.  The button of a leaf calls it through
\* handleToggleCompletion with isCompleted = ~IsLeafCompleted(entry, leafId);
\* the hook itself takes either value.
Toggle(course, leafId, isCompleted) ==
    /\ ~loading
    /\ ~crashed
    /\ ~effectPending
    /\ nToggles < MaxToggles
    /\ ~DetailThrows(variant, progress, course)
    /\ SetProgress(updateProgress(progress, course.id, leafId, isCompleted), course)
    /\ nToggles' = nToggles + 1
    /\ UNCHANGED <<variant, storage, loading, userId, lastCall, nReloads, nWrites,
                   written>>
    /\ UNCHANGED fetchVars
    /\ UNCHANGED tutorVars
    /\ UNCHANGED viewVars
    /\ UNCHANGED sessionVars

\* the page is loaded again, in either app
Reload(v) ==
    /\ ~loading
    /\ ~effectPending
    /\ nReloads < MaxReloads
    /\ variant' = v
    /\ progress' = JArr(<<>>)
    /\ loading' = TRUE
    /\ userId' = "Initializing..."
    /\ crashed' = FALSE
    /\ effectPending' = FALSE
    /\ nReloads' = nReloads + 1
    /\ UNCHANGED <<storage, lastCall, nToggles, nWrites, written>>
    /\ UNCHANGED fetchVars
    /\ UNCHANGED tutorVars
    /\ UNCHANGED viewVars
    /\ UNCHANGED sessionVars

Next ==
    \/ InitEffect
    \/ PersistEffect
    \/ \E course \in Range(OpenCourses(variant)) :
          \E leafId \in Range(OpenLeaves(variant, course)), isCompleted \in BOOLEAN :
             Toggle(course, leafId, isCompleted)
    \/ \E v \in Variants : Reload(v)

Spec == Init /\ [][Next]_vars

\* the persistence effect React has scheduled does run
FairSpec == Spec /\ WF_vars(PersistEffect)

(***************************************************************************)
(* The progress store on a localStorage that throws (storage disabled,     *)
(* quota exceeded).  Neither effect has a try around its getItem and       *)
(* setItem calls, so the exception leaves the effect; there is no error    *)
(* boundary, and React unmounts the tree.                                  *)
(***************************************************************************)
\* the lines of the first effect at which a storage call can throw:
\* getItem(USER_ID_KEY), setItem(USER_ID_KEY, ...), getItem(PROGRESS_KEY)
InitThrowLines == {358, 361, 365}

\* the first effect, cut short by a storage call that throws at line at;
\* setLoading(false) is not reached
InitEffectStorageThrows ==
    /\ loading
    /\ ~crashed
    /\ \E at \in InitThrowLines, fresh \in UUIDs :
          /\ (at = 361) => ~(storage.uid.present /\ storage.uid.text # "")
          /\ storage' = IF at = 365 /\ ~(storage.uid.present /\ storage.uid.text # "")
                        THEN [storage EXCEPT !.uid = Item(fresh)]
                        ELSE storage
    /\ crashed' = TRUE
    /\ UNCHANGED <<variant, progress, loading, userId, effectPending, lastCall,
                   nToggles, nReloads, nWrites, written>>
    /\ UNCHANGED fetchVars
    /\ UNCHANGED tutorVars
    /\ UNCHANGED viewVars
    /\ UNCHANGED sessionVars

\* the second effect, whose setItem(PROGRESS_KEY, ...) throws
PersistEffectStorageThrows ==
    /\ effectPending
    /\ ~crashed
    /\ ~loading
    /\ crashed' = TRUE
    /\ effectPending' = FALSE
    /\ UNCHANGED <<variant, storage, progress, loading, userId, lastCall,
                   nToggles, nReloads, nWrites, written>>
    /\ UNCHANGED fetchVars
    /\ UNCHANGED tutorVars
    /\ UNCHANGED viewVars
    /\ UNCHANGED sessionVars

NextStorageFault ==
    \/ Next
    \/ InitEffectStorageThrows
    \/ PersistEffectStorageThrows

SpecStorageFault == Init /\ [][NextStorageFault]_vars

(***************************************************************************)
(* updateProgress on its own: any collection, any arguments, applied once  *)
(* and then once more with the same arguments.                             *)
(***************************************************************************)
\* entries of a collection and ids of a completed list drawn for a call
MaxEntries == 2
MaxIds == 2

SeqsUpTo(S, n) == UNION {[1..k -> S] : k \in 0..n}

UpdateCourseIds == {"mm", "sd"}
UpdateLeafIds == {"mm-1", "mm-c1.1"}

\* collections of the declared type ProgressEntry[], repeats included
UpdateInputs ==
    {JArr(entries) :
        entries \in SeqsUpTo({ProgressEntry(c, ids) :
                                 c \in UpdateCourseIds,
                                 ids \in SeqsUpTo(UpdateLeafIds, MaxIds)},
                             MaxEntries)}

InitUpdate ==
    /\ variant = "chapter"
    /\ storage = [uid |-> Item("uuid-a"), prog |-> Absent]
    /\ progress \in UpdateInputs
    /\ loading = FALSE
    /\ userId = "uuid-a"
    /\ effectPending = FALSE
    /\ crashed = FALSE
    /\ lastCall = NoCall
    /\ nToggles = 0
    /\ nReloads = 0
    /\ nWrites = 0
    /\ written = JUndefined
    /\ FetchIdle
    /\ TutorIdle
    /\ card = NoCard
    /\ SessionIdle
    /\ baseline = NoBaseline

\* updateProgress(courseId, chapterId, isCompleted)
CallUpdate(courseId, chapterId, isCompleted) ==
    /\ lastCall.n = 0
    /\ progress' = updateProgress(progress, courseId, chapterId, isCompleted)
    /\ lastCall' = [n |-> 1, courseId |-> courseId, chapterId |-> chapterId,
                    isCompleted |-> isCompleted, before |-> progress,
                    once |-> progress']
    /\ UNCHANGED <<variant, storage, loading, userId, effectPending, crashed,
                   nToggles, nReloads, nWrites, written>>
    /\ UNCHANGED fetchVars
    /\ UNCHANGED tutorVars
    /\ UNCHANGED viewVars
    /\ UNCHANGED sessionVars

\* the same call again
CallAgain ==
    /\ lastCall.n = 1
    /\ progress' = updateProgress(progress, lastCall.courseId, lastCall.chapterId,
                                  lastCall.isCompleted)
    /\ lastCall' = [lastCall EXCEPT !.n = 2]
    /\ UNCHANGED <<variant, storage, loading, userId, effectPending, crashed,
                   nToggles, nReloads, nWrites, written>>
    /\ UNCHANGED fetchVars
    /\ UNCHANGED tutorVars
    /\ UNCHANGED viewVars
    /\ UNCHANGED sessionVars

NextUpdate ==
    \/ \E c \in UpdateCourseIds, l \in UpdateLeafIds, b \in BOOLEAN :
          CallUpdate(c, l, b)
    \/ CallAgain

SpecUpdate == InitUpdate /\ [][NextUpdate]_vars

(***************************************************************************)
(* updateProgress called again and again, with any arguments, on any       *)
(* collection of the declared type.                                        *)
(***************************************************************************)
\* calls per run
MaxCalls == 2

\* updateProgress(courseId, chapterId, isCompleted); lastCall keeps the
\* arguments, the collection before the call and the one after it
Call(courseId, chapterId, isCompleted) ==
    /\ lastCall.n < MaxCalls
    /\ progress' = updateProgress(progress, courseId, chapterId, isCompleted)
    /\ lastCall' = [n |-> lastCall.n + 1, courseId |-> courseId,
                    chapterId |-> chapterId, isCompleted |-> isCompleted,
                    before |-> progress, once |-> progress']
    /\ UNCHANGED <<variant, storage, loading, userId, effectPending, crashed,
                   nToggles, nReloads, nWrites, written>>
    /\ UNCHANGED fetchVars
    /\ UNCHANGED tutorVars
    /\ UNCHANGED viewVars
    /\ UNCHANGED sessionVars

NextCalls ==
    \E c \in UpdateCourseIds, l \in UpdateLeafIds, b \in BOOLEAN : Call(c, l, b)

SpecCalls == InitUpdate /\ [][NextCalls]_vars

(***************************************************************************)
(* CourseCard on its own: any course prop, declared totalModules and       *)
(* modules actually listed chosen apart, and the entry of a user who       *)
(* marked some of its leaves done.                                         *)
(***************************************************************************)
\* modules a course prop lists, and the largest totalModules it declares
MaxModules == 3

CardModuleIds == <<"mm-1", "mm-2", "mm-3", "mm-4", "mm-5">>
CardChapterIds == <<"mm-c1.1", "mm-c2.1", "mm-c3.1", "mm-c4.1", "mm-c5.1">>

\* a course with n modules (one chapter each when withChapters) that
\* declares totalModules = declared
CardCourse(declared, n, withChapters) ==
    [id |-> "mm", totalModules |-> declared,
     modules |-> [k \in 1..n |->
                    [id |-> CardModuleIds[k],
                     chapters |-> IF withChapters THEN <<CardChapterIds[k]>>
                                  ELSE <<>>]]]

CardCourses ==
    {CardCourse(declared, n, withChapters) :
        declared \in 0..MaxModules, n \in 0..MaxModules, withChapters \in BOOLEAN}

InitCard ==
    /\ variant \in Variants
    /\ storage = [uid |-> Item("uuid-a"), prog |-> Absent]
    /\ \E course \in CardCourses :
          /\ card = [NoCard EXCEPT !.course = course]
          /\ \E k \in 0..Len(LeafIds(variant, course)) :
                progress = MarkAll(JArr(<<>>), course.id,
                                   Prefix(LeafIds(variant, course), k))
    /\ loading = FALSE
    /\ userId = "uuid-a"
    /\ effectPending = FALSE
    /\ crashed = FALSE
    /\ lastCall = NoCall
    /\ nToggles = 0
    /\ nReloads = 0
    /\ nWrites = 0
    /\ written = JUndefined
    /\ FetchIdle
    /\ TutorIdle
    /\ SessionIdle
    /\ baseline = NoBaseline

\* <CourseCard course={course} progress={progress.find(...)} />
RenderCard ==
    /\ ~card.shown
    /\ LET count == completedCount(FindEntry(progress, card.course.id)) IN
       card' = [shown |-> TRUE,
                course |-> card.course,
                count |-> count,
                ratio |-> completionRatio(variant, card.course, count),
                isCompleted |-> isCourseCompleted(variant, card.course, count)]
    /\ UNCHANGED storeVars
    /\ UNCHANGED fetchVars
    /\ UNCHANGED tutorVars
    /\ UNCHANGED sessionVars

NextCard == RenderCard

SpecCard == InitCard /\ [][NextCard]_vars

(***************************************************************************)
(* fetchWithExponentialBackoff(url, options, maxRetries = 5).              *)
(***************************************************************************)
\* the default of the parameter maxRetries; no caller passes another value
DefaultMaxRetries == 5

\* what one fetch can come to: the promise rejects (net), or a response
\* with a status and a body that response.json() can parse or not
NetworkError == [net |-> TRUE, status |-> 0, parses |-> FALSE]
Response(status, parses) == [net |-> FALSE, status |-> status, parses |-> parses]
Statuses == {200, 429, 404}
Outcomes == {NetworkError} \cup {Response(st, b) : st \in Statuses, b \in BOOLEAN}

\* response.ok
Ok(o) == o.status >= 200 /\ o.status <= 299

\* Math.random() * 1000, in whole milliseconds: the ends of its range
Jitters == {0, 999}

\* a linear backoff in place of the exponential one
BackoffBaseLinear(i) == (i + 1) * 1000

\* Math.pow(2, i) * 1000
BackoffBase(i) == Pow2(i) * 1000

\* the try block of attempt i: "return", "continue" (after the 429 wait),
\* or the error it throws
TryBlock(i, max, o) ==
    IF o.net THEN "NetworkError"
    ELSE IF ~Ok(o)
         THEN IF ~o.parses THEN "SyntaxError"
              ELSE IF o.status = 429 /\ i < max - 1 THEN "continue"
              ELSE "ApiError"
    ELSE IF o.parses THEN "return" ELSE "SyntaxError"

\* a catch block without the i === maxRetries - 1 test: it waits after the
\* last attempt too
AfterAttemptAlwaysWait(i, max, o) ==
    LET t == TryBlock(i, max, o) IN
    IF t = "return" THEN [pc |-> "returned", result |-> "body"]
    ELSE [pc |-> "waiting", result |-> "none"]

\* a catch block that rethrows a rejected fetch at once, whatever the attempt
AfterAttemptRaiseTransport(i, max, o) ==
    LET t == TryBlock(i, max, o) IN
    IF t = "return" THEN [pc |-> "returned", result |-> "body"]
    ELSE IF t = "continue" THEN [pc |-> "waiting", result |-> "none"]
    ELSE IF i = max - 1 \/ t = "NetworkError" THEN [pc |-> "raised", result |-> t]
    ELSE [pc |-> "waiting", result |-> "none"]

\* attempt i as a whole, catch block included: the call returns, raises the
\* error, or waits one backoff delay before the loop goes on
AfterAttempt(i, max, o) ==
    LET t == TryBlock(i, max, o) IN
    IF t = "return" THEN [pc |-> "returned", result |-> "body"]
    ELSE IF t = "continue" THEN [pc |-> "waiting", result |-> "none"]
    ELSE IF i = max - 1 THEN [pc |-> "raised", result |-> t]
    ELSE [pc |-> "waiting", result |-> "none"]

InitFetch ==
    /\ variant = "chapter"
    /\ storage = [uid |-> Item("uuid-a"), prog |-> Absent]
    /\ progress = JArr(<<>>)
    /\ loading = FALSE
    /\ userId = "uuid-a"
    /\ effectPending = FALSE
    /\ crashed = FALSE
    /\ lastCall = NoCall
    /\ nToggles = 0
    /\ nReloads = 0
    /\ nWrites = 0
    /\ written = JUndefined
    /\ fpc = "fetching"
    /\ fi = 0
    /\ maxRetries \in 1..MaxRetriesBound
    /\ history = <<>>
    /\ waitBases = <<>>
    /\ lastDelay = 0
    /\ fresult = "none"
    /\ TutorIdle
    /\ card = NoCard
    /\ SessionIdle
    /\ baseline = NoBaseline

\* one pass of the loop body up to its return, throw or setTimeout
Attempt(o, jitter) ==
    /\ fpc = "fetching"
    /\ history' = Append(history, o)
    /\ LET after == AfterAttempt(fi, maxRetries, o) IN
       /\ fpc' = after.pc
       /\ fresult' = after.result
       /\ waitBases' = IF after.pc = "waiting"
                       THEN Append(waitBases, BackoffBase(fi)) ELSE waitBases
       /\ lastDelay' = IF after.pc = "waiting"
                       THEN BackoffBase(fi) + jitter ELSE lastDelay
    /\ UNCHANGED <<fi, maxRetries>>
    /\ UNCHANGED storeVars
    /\ UNCHANGED tutorVars
    /\ UNCHANGED viewVars
    /\ UNCHANGED sessionVars

\* the timer fires: i++ and the loop test; past the loop the final throw
BackoffElapsed ==
    /\ fpc = "waiting"
    /\ fi' = fi + 1
    /\ fpc' = IF fi + 1 < maxRetries THEN "fetching" ELSE "raised"
    /\ fresult' = IF fi + 1 < maxRetries THEN fresult ELSE "MaxRetriesError"
    /\ UNCHANGED <<maxRetries, history, waitBases, lastDelay>>
    /\ UNCHANGED storeVars
    /\ UNCHANGED tutorVars
    /\ UNCHANGED viewVars
    /\ UNCHANGED sessionVars

NextFetch ==
    \/ \E o \in Outcomes, jitter \in Jitters : Attempt(o, jitter)
    \/ BackoffElapsed

SpecFetch == InitFetch /\ [][NextFetch]_vars

\* every fetch settles and every timer fires
FairSpecFetch == SpecFetch /\ WF_vars(NextFetch)

(***************************************************************************)
(* Calls of updateProgress between two renders.  updateProgress hands      *)
(* setProgress a function of the previous state (page.tsx 386); React      *)
(* queues what setProgress is given and, at the next render, works the     *)
(* queue off in order: a function is applied to the state the entries      *)
(* before it produced, a plain value replaces it.                          *)
(***************************************************************************)
\* collections a batch starts from: at most two entries, each with at most
\* one id
BatchInputs ==
    {JArr(entries) :
        entries \in SeqsUpTo({ProgressEntry(c, ids) :
                                 c \in UpdateCourseIds,
                                 ids \in SeqsUpTo(UpdateLeafIds, 1)}, 2)}

\* an updateProgress that computed the new collection from the progress of
\* the render it was created in and handed setProgress the value
SetProgressArgStale(rendered, courseId, chapterId, isCompleted) ==
    [isUpdater |-> FALSE, courseId |-> courseId, chapterId |-> chapterId,
     isCompleted |-> isCompleted,
     value |-> updateProgress(rendered, courseId, chapterId, isCompleted)]

\* what updateProgress(courseId, chapterId, isCompleted) hands setProgress:
\* prevProgress => ..., which does not read the rendered progress
SetProgressArg(rendered, courseId, chapterId, isCompleted) ==
    [isUpdater |-> TRUE, courseId |-> courseId, chapterId |-> chapterId,
     isCompleted |-> isCompleted, value |-> JUndefined]

\* one queued update applied to the state
ApplyUpdate(state, u) ==
    IF u.isUpdater
    THEN updateProgress(state, u.courseId, u.chapterId, u.isCompleted)
    ELSE u.value

\* the queue worked off at a render
RECURSIVE ProcessQueue(_, _)
ProcessQueue(state, q) ==
    IF q = <<>> THEN state
    ELSE ProcessQueue(ApplyUpdate(state, Head(q)), Tail(q))

InitBatch ==
    /\ variant = "chapter"
    /\ storage = [uid |-> Item("uuid-a"), prog |-> Absent]
    /\ progress \in BatchInputs
    /\ loading = FALSE
    /\ userId = "uuid-a"
    /\ effectPending = FALSE
    /\ crashed = FALSE
    /\ lastCall = NoCall
    /\ nToggles = 0
    /\ nReloads = 0
    /\ nWrites = 0
    /\ written = JUndefined
    /\ FetchIdle
    /\ TutorIdle
    /\ card = NoCard
    /\ SessionIdle
    /\ baseline = NoBaseline

\* updateProgress(courseId, chapterId, isCompleted) is called: setProgress
\* queues its argument, the state is not touched until the next render
EnqueueUpdate(courseId, chapterId, isCompleted) ==
    /\ nToggles < MaxCalls
    /\ queue' = Append(queue, SetProgressArg(progress, courseId, chapterId,
                                             isCompleted))
    /\ nToggles' = nToggles + 1
    /\ UNCHANGED <<variant, storage, progress, loading, userId, effectPending,
                   crashed, lastCall, nReloads, nWrites, written>>
    /\ UNCHANGED fetchVars
    /\ UNCHANGED tutorVars
    /\ UNCHANGED viewVars
    /\ UNCHANGED <<tabs, tutor, ebook, baseline>>

\* the next render: the queue is worked off.  lastCall keeps the arguments
\* of the last call of the batch, the state the batch began with and the
\* state the calls before the last one produced.
RenderBatch ==
    /\ queue # <<>>
    /\ progress' = ProcessQueue(progress, queue)
    /\ queue' = <<>>
    /\ lastCall' = [n |-> Len(queue),
                    courseId |-> queue[Len(queue)].courseId,
                    chapterId |-> queue[Len(queue)].chapterId,
                    isCompleted |-> queue[Len(queue)].isCompleted,
                    before |-> progress,
                    once |-> ProcessQueue(progress, SubSeq(queue, 1, Len(queue) - 1))]
    /\ effectPending' = TRUE
    /\ UNCHANGED <<variant, storage, loading, userId, crashed, nToggles,
                   nReloads, nWrites, written>>
    /\ UNCHANGED fetchVars
    /\ UNCHANGED tutorVars
    /\ UNCHANGED viewVars
    /\ UNCHANGED <<tabs, tutor, ebook, baseline>>

NextBatch ==
    \/ \E c \in UpdateCourseIds, l \in UpdateLeafIds, b \in BOOLEAN :
          EnqueueUpdate(c, l, b)
    \/ RenderBatch

SpecBatch == InitBatch /\ [][NextBatch]_vars

(***************************************************************************)
(* The chapter app on what the chapter app stored: every list holds        *)
(* chapter ids of its own course, none twice.  The texts leave a course    *)
(* complete but for some of the chapters the user toggles, or hold the     *)
(* first chapters of it.                                                   *)
(***************************************************************************)
\* the ids of a sequence that are not in a set, in order
Without(ids, gone) ==
    SelectSeq(ids, LAMBDA id : id \notin gone)

ChapterTexts ==
    UNION {{JSON_stringify(MarkAll(JArr(<<>>), c.id,
                                   Without(LeafIds("chapter", c), gone))) :
               gone \in SUBSET Range(OpenLeaves("chapter", c))}
           \cup {JSON_stringify(MarkAll(JArr(<<>>), c.id,
                                        Prefix(LeafIds("chapter", c), k))) :
                    k \in 0..MaxPrior} :
           c \in Range(OpenCourses("chapter"))}

InitChapters ==
    /\ variant = "chapter"
    /\ storage \in [uid : {Absent, Item("uuid-a")},
                    prog : {Absent} \cup {Item(t) : t \in ChapterTexts}]
    /\ FirstRender
    /\ effectPending = FALSE
    /\ crashed = FALSE
    /\ lastCall = NoCall
    /\ nToggles = 0
    /\ nReloads = 0
    /\ nWrites = 0
    /\ written = JUndefined
    /\ FetchIdle
    /\ TutorIdle
    /\ card = NoCard
    /\ SessionIdle
    /\ baseline = [variant |-> variant, prog |-> storage.prog]

NextChapters ==
    \/ InitEffect
    \/ PersistEffect
    \/ \E course \in Range(OpenCourses("chapter")) :
          \E leafId \in Range(OpenLeaves("chapter", course)), isCompleted \in BOOLEAN :
             Toggle(course, leafId, isCompleted)
    \/ Reload("chapter")

SpecChapters == InitChapters /\ [][NextChapters]_vars

(***************************************************************************)
(* Two tabs of the chapter app on one localStorage.  Each tab runs its own *)
(* useUserProgress; the hook registers no storage listener, so a tab reads *)
(* the key once, in its first effect, and writes it in its second.  The    *)
(* texts that can be stored are the app's own, which every render accepts. *)
(***************************************************************************)
\* what the tabs may find under sap_progress: nothing, or a text the chapter
\* app wrote
TabTexts ==
    {Absent, Item(JSON_stringify(JArr(<<>>)))}
    \cup UNION {{Item(JSON_stringify(JArr(<<ProgressEntry(course.id, <<leafId>>)>>))) :
                   leafId \in Range(LeafIds("chapter", course))} :
                course \in Range(OpenCourses("chapter"))}

\* a tab at its first render; loadedText is the text its first effect will
\* read, touched the leaves it toggled
TabMounted ==
    [progress |-> JArr(<<>>), loading |-> TRUE, userId |-> "Initializing...",
     effectPending |-> FALSE, loadedText |-> Absent, touched |-> {}]

InitTabs ==
    /\ variant = "chapter"
    /\ storage \in [uid : {Item("uuid-a")}, prog : TabTexts]
    /\ progress = JArr(<<>>)
    /\ loading = FALSE
    /\ userId = "uuid-a"
    /\ effectPending = FALSE
    /\ crashed = FALSE
    /\ lastCall = NoCall
    /\ nToggles = 0
    /\ nReloads = 0
    /\ nWrites = 0
    /\ written = JUndefined
    /\ FetchIdle
    /\ TutorIdle
    /\ card = NoCard
    /\ queue = <<>>
    /\ tabs = [tab |-> <<TabMounted, TabMounted>>, lastWriter |-> 0,
               nToggles |-> 0]
    /\ tutor = TutorMounted
    /\ ebook = EbookMounted
    /\ baseline = NoBaseline

\* mount of tab i: both effects after its first render, as in InitEffect
TabInitEffect(i) ==
    /\ tabs.tab[i].loading
    /\ \E fresh \in UUIDs :
          LET storedUserId == IF storage.uid.present /\ storage.uid.text # ""
                              THEN storage.uid.text ELSE fresh
              withUid == [storage EXCEPT !.uid = Item(storedUserId)]
          IN  /\ storage' = PersistEffectBody(tabs.tab[i].loading,
                                              tabs.tab[i].progress, withUid)
              /\ tabs' = [tabs EXCEPT !.tab[i] =
                            [progress |-> LoadedProgress(storage.prog,
                                                         tabs.tab[i].progress),
                             loading |-> FALSE,
                             userId |-> storedUserId,
                             effectPending |-> TRUE,
                             loadedText |-> storage.prog,
                             touched |-> {}]]
    /\ UNCHANGED <<variant, progress, loading, userId, effectPending, crashed,
                   lastCall, nToggles, nReloads, nWrites, written>>
    /\ UNCHANGED fetchVars
    /\ UNCHANGED tutorVars
    /\ UNCHANGED viewVars
    /\ UNCHANGED <<queue, tutor, ebook, baseline>>

\* the second effect of tab i; lastWriter is the tab whose setItem ran last
TabPersistEffect(i) ==
    /\ tabs.tab[i].effectPending
    /\ storage' = PersistEffectBody(tabs.tab[i].loading, tabs.tab[i].progress,
                                    storage)
    /\ tabs' = [tabs EXCEPT !.tab[i].effectPending = FALSE,
                            !.lastWriter = IF tabs.tab[i].loading THEN @ ELSE i]
    /\ UNCHANGED <<variant, progress, loading, userId, effectPending, crashed,
                   lastCall, nToggles, nReloads, nWrites, written>>
    /\ UNCHANGED fetchVars
    /\ UNCHANGED tutorVars
    /\ UNCHANGED viewVars
    /\ UNCHANGED <<queue, tutor, ebook, baseline>>

\* updateProgress(course.id, leafId, isCompleted) in tab i and the render
\* after it
TabToggle(i, course, leafId, isCompleted) ==
    /\ ~tabs.tab[i].loading
    /\ ~tabs.tab[i].effectPending
    /\ tabs.nToggles < MaxToggles
    /\ tabs' = [tabs EXCEPT !.tab[i].progress =
                               updateProgress(@, course.id, leafId, isCompleted),
                            !.tab[i].effectPending = TRUE,
                            !.tab[i].touched = @ \cup {leafId},
                            !.nToggles = @ + 1]
    /\ UNCHANGED <<variant, storage, progress, loading, userId, effectPending,
                   crashed, lastCall, nToggles, nReloads, nWrites, written>>
    /\ UNCHANGED fetchVars
    /\ UNCHANGED tutorVars
    /\ UNCHANGED viewVars
    /\ UNCHANGED <<queue, tutor, ebook, baseline>>

NextTabs ==
    \E i \in 1..2 :
       \/ TabInitEffect(i)
       \/ TabPersistEffect(i)
       \/ \E course \in Range(OpenCourses("chapter")) :
             \E leafId \in Range(OpenLeaves("chapter", course)),
                isCompleted \in BOOLEAN :
                TabToggle(i, course, leafId, isCompleted)

SpecTabs == InitTabs /\ [][NextTabs]_vars

(***************************************************************************)
(* The entry points that send a text request through                       *)
(* fetchWithExponentialBackoff: the tutor's handleSubmit of page.tsx and   *)
(* of app/components, and generateContent (called by generateEbook) of     *)
(* components.                                                             *)
(***************************************************************************)
EntryPoints ==
    {"page.handleSubmit", "app.components.handleSubmit", "components.generateContent"}

\* the entry points that begin with if (!apiKey)
ChecksKey(e) == e \in {"app.components.handleSubmit", "components.generateContent"}

\* what the user is shown
ConfigMessage == "API Key is missing. Please set NEXT_PUBLIC_GOOGLE_GEMINI_API_KEY."
ConnectMessage == "I'm having trouble connecting to the knowledge base right now."
AnswerText == "answer"

InitRequest ==
    /\ variant = "chapter"
    /\ storage = [uid |-> Item("uuid-a"), prog |-> Absent]
    /\ progress = JArr(<<>>)
    /\ loading = FALSE
    /\ userId = "uuid-a"
    /\ effectPending = FALSE
    /\ crashed = FALSE
    /\ lastCall = NoCall
    /\ nToggles = 0
    /\ nReloads = 0
    /\ nWrites = 0
    /\ written = JUndefined
    /\ FetchIdle
    /\ apiKey \in {"", "key"}
    /\ entryPoint \in EntryPoints
    /\ tpc = "idle"
    /\ response = ""
    /\ card = NoCard
    /\ SessionIdle
    /\ baseline = NoBaseline

\* the entry point is called with a non-empty input: up to the await of
\* fetchWithExponentialBackoff, or to the return or throw before it
Submit ==
    /\ tpc = "idle"
    /\ IF ChecksKey(entryPoint) /\ apiKey = ""
       THEN /\ response' = ConfigMessage
            /\ tpc' = "done"
            /\ UNCHANGED fetchVars
       ELSE /\ response' = ""
            /\ tpc' = "requesting"
            /\ fpc' = "fetching"
            /\ fi' = 0
            /\ maxRetries' = DefaultMaxRetries
            /\ UNCHANGED <<history, waitBases, lastDelay, fresult>>
    /\ UNCHANGED <<apiKey, entryPoint>>
    /\ UNCHANGED viewVars
    /\ UNCHANGED sessionVars
    /\ UNCHANGED storeVars

\* the awaited call is over: the text of the body, or the catch block
Settle ==
    /\ tpc = "requesting"
    /\ fpc \in {"returned", "raised"}
    /\ response' = IF fpc = "returned" THEN AnswerText ELSE ConnectMessage
    /\ tpc' = "done"
    /\ UNCHANGED <<apiKey, entryPoint>>
    /\ UNCHANGED viewVars
    /\ UNCHANGED sessionVars
    /\ UNCHANGED fetchVars
    /\ UNCHANGED storeVars

NextRequest ==
    \/ Submit
    \/ \E o \in Outcomes, jitter \in Jitters : Attempt(o, jitter)
    \/ BackoffElapsed
    \/ Settle

SpecRequest == InitRequest /\ [][NextRequest]_vars

(***************************************************************************)
(* The tutor (VoiceAssistant of page.tsx; handleSpeak and                  *)
(* handleStopSpeaking are the same in app/components) and the e-book view  *)
(* (ChapterEbookView of components).  A call of                            *)
(* fetchWithExponentialBackoff is taken from outside here: it ends, by     *)
(* returning a body or by raising.  Several calls can be in flight at      *)
(* once: nothing cancels the speech request of an earlier answer.          *)
(* The audio element follows HTMLMediaElement: play() clears paused at     *)
(* once and its promise settles later; pause(), and the load that setting  *)
(* src starts, set paused and reject the promise of a play() still         *)
(* pending; at the end of playback paused is set and ended is fired.       *)
(***************************************************************************)
\* questions submitted, handleSpeak calls and generateEbook calls per run
MaxSubmits == 2
MaxSpeaks == 2
MaxGenerations == 2

\* what the tutor can show
Answer(n) == [text |-> AnswerText, n |-> n]
ConnectText == [text |-> ConnectMessage, n |-> 0]
VoiceErrorText ==
    [text |-> "An error occurred while connecting to the voice service.", n |-> 0]
NoVoiceText == [text |-> "Sorry, I couldn't generate the voice response.", n |-> 0]

\* how the awaited part of a handleSpeak call can go: audio that starts to
\* play, audio whose play() the browser refuses, a body without audio data,
\* an error raised by the request
SpeechOutcomes == {"audio", "blocked", "noAudio", "raised"}

\* pause() or a new src: the play() promises still pending are rejected
RejectPlays(calls) ==
    {IF c.stage = "play" THEN [c EXCEPT !.stage = "rejected"] ELSE c : c \in calls}

\* handleStopSpeaking(); audioRef.current is set from the mount effect on
handleStopSpeaking(tu) ==
    [tu EXCEPT !.audio.paused = TRUE,
               !.audio.started = FALSE,
               !.speech = RejectPlays(@),
               !.isSpeaking = FALSE]

\* handleSpeak(textToSpeak) up to its await of the speech request
handleSpeak(tu, textToSpeak) ==
    [handleStopSpeaking(tu) EXCEPT
        !.isSpeaking = TRUE,
        !.speech = @ \cup {[id |-> tu.nSpeaks + 1, text |-> textToSpeak,
                            stage |-> "fetch"]},
        !.nSpeaks = @ + 1]

\* the catch and finally blocks of the handleSpeak calls whose play() was
\* rejected; they run when the code that caused the rejection has returned
AfterRejections(tu) ==
    IF \E c \in tu.speech : c.stage = "rejected"
    THEN [tu EXCEPT !.response = VoiceErrorText,
                    !.isSpeaking = IF tu.audio.paused THEN FALSE ELSE @,
                    !.speech = {c \in @ : c.stage # "rejected"}]
    ELSE tu

\* a handleSubmit that does not call handleStopSpeaking
handleSubmitKeepsAudio(tu) ==
    [tu EXCEPT !.response = NoText,
               !.loading = TRUE,
               !.nSubmits = @ + 1,
               !.atSend = [n |-> tu.nSubmits + 1,
                           wasPlaying |-> ~tu.audio.paused,
                           playing |-> ~tu.audio.paused,
                           isSpeaking |-> tu.isSpeaking]]

\* handleSubmit with a non-empty input, up to its await of the text request;
\* atSend is the audio and isSpeaking it leaves when the request goes out
handleSubmit(tu) ==
    LET stopped == handleStopSpeaking(tu)
    IN  [stopped EXCEPT !.response = NoText,
                        !.loading = TRUE,
                        !.nSubmits = @ + 1,
                        !.atSend = [n |-> tu.nSubmits + 1,
                                    wasPlaying |-> ~tu.audio.paused,
                                    playing |-> ~stopped.audio.paused,
                                    isSpeaking |-> stopped.isSpeaking]]

\* handleSubmit without its try: an error of the request escapes the handler
handleSubmitSettleNoTry(tu, outcome) ==
    IF outcome = "returned"
    THEN [handleSpeak([tu EXCEPT !.response = Answer(tu.nSubmits)],
                      Answer(tu.nSubmits))
             EXCEPT !.loading = FALSE]
    ELSE [tu EXCEPT !.unhandled = TRUE]

\* handleSubmit after its await: try, catch and finally
handleSubmitSettle(tu, outcome) ==
    IF outcome = "returned"
    THEN [handleSpeak([tu EXCEPT !.response = Answer(tu.nSubmits)],
                      Answer(tu.nSubmits))
             EXCEPT !.loading = FALSE]
    ELSE [tu EXCEPT !.response = ConnectText, !.loading = FALSE]

\* handleSpeak after its await: the call c of tu.speech goes on
handleSpeakSettle(tu, c, outcome) ==
    LET others == tu.speech \ {c}
        loaded == [tu EXCEPT !.audio = [paused |-> TRUE, src |-> c.text,
                                        started |-> FALSE],
                             !.speech = RejectPlays(others)]
    IN  CASE outcome = "audio" ->
                [loaded EXCEPT !.audio.paused = FALSE,
                               !.speech = @ \cup {[c EXCEPT !.stage = "play"]}]
          [] outcome = "blocked" ->
                [loaded EXCEPT !.response = VoiceErrorText,
                               !.isSpeaking = FALSE]
          [] outcome = "noAudio" ->
                [tu EXCEPT !.response = NoVoiceText,
                           !.speech = others,
                           !.isSpeaking = IF tu.audio.paused THEN FALSE ELSE @]
          [] OTHER ->
                [tu EXCEPT !.response = VoiceErrorText,
                           !.speech = others,
                           !.isSpeaking = IF tu.audio.paused THEN FALSE ELSE @]

\* the message generateEbook shows for an error with message m
EbookError(m) ==
    JStr(<<"Could not generate E-book content: ", m,
           ". Please check the API key or try again.">>)

\* generateEbook up to its await; without a key generateContent throws
\* before any request
generateEbook(eb, key) ==
    [eb EXCEPT !.loading = TRUE,
               !.error = JNull,
               !.ebookContent = "",
               !.pc = IF key = "" THEN "rejected" ELSE "requesting",
               !.nCalls = @ + 1]

\* generateEbook after its await: try, catch and finally
generateEbookSettle(eb, outcome) ==
    CASE eb.pc = "rejected" ->
            [eb EXCEPT !.error = EbookError(ConfigMessage), !.loading = FALSE,
                       !.pc = "settled"]
      [] outcome = "returned" ->
            [eb EXCEPT !.ebookContent = AnswerText, !.loading = FALSE,
                       !.pc = "settled"]
      [] OTHER ->
            [eb EXCEPT !.error = EbookError(ConnectMessage), !.loading = FALSE,
                       !.pc = "settled"]

InitAssist ==
    /\ variant = "chapter"
    /\ storage = [uid |-> Item("uuid-a"), prog |-> Absent]
    /\ progress = JArr(<<>>)
    /\ loading = FALSE
    /\ userId = "uuid-a"
    /\ effectPending = FALSE
    /\ crashed = FALSE
    /\ lastCall = NoCall
    /\ nToggles = 0
    /\ nReloads = 0
    /\ nWrites = 0
    /\ written = JUndefined
    /\ FetchIdle
    /\ apiKey \in {"", "key"}
    /\ entryPoint = "none"
    /\ tpc = "idle"
    /\ response = ""
    /\ card = NoCard
    /\ SessionIdle
    /\ baseline = NoBaseline

\* the form is submitted with a question in the input
TutorSubmit ==
    /\ ~tutor.loading
    /\ tutor.nSubmits < MaxSubmits
    /\ tutor' = AfterRejections(handleSubmit(tutor))
    /\ UNCHANGED <<storeVars, fetchVars, tutorVars, viewVars>>
    /\ UNCHANGED <<queue, tabs, ebook, baseline>>

\* the text request is over
TextSettles(outcome) ==
    /\ tutor.loading
    /\ tutor' = AfterRejections(handleSubmitSettle(tutor, outcome))
    /\ UNCHANGED <<storeVars, fetchVars, tutorVars, viewVars>>
    /\ UNCHANGED <<queue, tabs, ebook, baseline>>

\* the second button while it reads Replay Response
Replay ==
    /\ ~tutor.loading
    /\ tutor.response # NoText
    /\ ~tutor.isSpeaking
    /\ tutor.nSpeaks < MaxSpeaks
    /\ tutor' = AfterRejections(handleSpeak(tutor, tutor.response))
    /\ UNCHANGED <<storeVars, fetchVars, tutorVars, viewVars>>
    /\ UNCHANGED <<queue, tabs, ebook, baseline>>

\* the second button while it reads Stop Speaking
Stop ==
    /\ ~tutor.loading
    /\ tutor.response # NoText
    /\ tutor.isSpeaking
    /\ tutor' = AfterRejections(handleStopSpeaking(tutor))
    /\ UNCHANGED <<storeVars, fetchVars, tutorVars, viewVars>>
    /\ UNCHANGED <<queue, tabs, ebook, baseline>>

\* the speech request of a handleSpeak call is over
SpeechSettles(c, outcome) ==
    /\ c \in tutor.speech
    /\ c.stage = "fetch"
    /\ tutor' = AfterRejections(handleSpeakSettle(tutor, c, outcome))
    /\ UNCHANGED <<storeVars, fetchVars, tutorVars, viewVars>>
    /\ UNCHANGED <<queue, tabs, ebook, baseline>>

\* playback has begun: the play() promise resolves, and the finally block
\* finds the element not paused
PlayStarted(c) ==
    /\ c \in tutor.speech
    /\ c.stage = "play"
    /\ tutor' = [tutor EXCEPT !.audio.started = TRUE, !.speech = @ \ {c}]
    /\ UNCHANGED <<storeVars, fetchVars, tutorVars, viewVars>>
    /\ UNCHANGED <<queue, tabs, ebook, baseline>>

\* playback reaches the end: the element is paused and onended runs
AudioEnded ==
    /\ ~tutor.audio.paused
    /\ tutor.audio.started
    /\ tutor' = [tutor EXCEPT !.audio.paused = TRUE, !.audio.started = FALSE,
                              !.isSpeaking = FALSE]
    /\ UNCHANGED <<storeVars, fetchVars, tutorVars, viewVars>>
    /\ UNCHANGED <<queue, tabs, ebook, baseline>>

\* generateEbook(), from the mount effect or from the button
EbookGenerate ==
    /\ ~ebook.loading
    /\ ebook.nCalls < MaxGenerations
    /\ ebook' = generateEbook(ebook, apiKey)
    /\ UNCHANGED <<storeVars, fetchVars, tutorVars, viewVars>>
    /\ UNCHANGED <<queue, tabs, tutor, baseline>>

\* generateContent is over
EbookSettles(outcome) ==
    /\ ebook.pc \in {"requesting", "rejected"}
    /\ ebook' = generateEbookSettle(ebook, outcome)
    /\ UNCHANGED <<storeVars, fetchVars, tutorVars, viewVars>>
    /\ UNCHANGED <<queue, tabs, tutor, baseline>>

NextAssist ==
    \/ TutorSubmit
    \/ \E outcome \in {"returned", "raised"} : TextSettles(outcome)
    \/ Replay
    \/ Stop
    \/ \E c \in tutor.speech, outcome \in SpeechOutcomes : SpeechSettles(c, outcome)
    \/ \E c \in tutor.speech : PlayStarted(c)
    \/ AudioEnded
    \/ EbookGenerate
    \/ \E outcome \in {"returned", "raised"} : EbookSettles(outcome)

SpecAssist == InitAssist /\ [][NextAssist]_vars

\* a request in flight ends (C13), and the callbacks of a settled promise run
FairSpecAssist ==
    /\ SpecAssist
    /\ WF_vars(\E outcome \in {"returned", "raised"} : TextSettles(outcome))
    /\ WF_vars(\E outcome \in {"returned", "raised"} : EbookSettles(outcome))

(***************************************************************************)
(* Claims.                                                                 *)
(***************************************************************************)

\* C1 (SpecUpdate): updateProgress is idempotent.  For every collection and
\* every (courseId, chapterId, isCompleted), the collection after the same
\* call was made a second time equals the collection after the first call.
C1_Idempotent == lastCall.n = 2 => progress = lastCall.once

\* C1 witness: "done" was called twice for a course that had an entry
\* without the id, and the first call did change the collection.
C1_Witness ==
    /\ lastCall.n = 2
    /\ lastCall.isCompleted
    /\ FindIndex(lastCall.before.v, lastCall.courseId) > 0
    /\ lastCall.once # lastCall.before
    /\ progress = lastCall.once

\* C2 (SpecFetch): a non-success status other than 429 on the first attempt
\* ends the call at once: the error is raised after that one fetch, and
\* no backoff wait was started.
C2_FailsImmediately ==
    (/\ history # <<>>
     /\ ~history[1].net
     /\ ~Ok(history[1])
     /\ history[1].status # 429
     /\ history[1].parses)
    => (fpc = "raised" /\ Len(history) = 1 /\ waitBases = <<>>)

\* the responses 429, 429, 429, 200 of the scenario of C3
Scenario429 ==
    <<Response(429, TRUE), Response(429, TRUE), Response(429, TRUE),
      Response(200, TRUE)>>

\* C3 (SpecFetch): with maxRetries = 5 the responses 429, 429, 429, 200 make
\* the call return the parsed body after exactly four fetches, the waits in
\* between having the bases 1000, 2000, 4000 ms; and in general a 429 on
\* attempt i < maxRetries - 1 is followed by exactly one wait, of a delay in
\* [2^i * 1000, 2^i * 1000 + 1000).
C3_Backoff429 ==
    /\ (maxRetries = DefaultMaxRetries /\ history = Scenario429)
        => (fpc = "returned" /\ fresult = "body" /\ waitBases = <<1000, 2000, 4000>>)
    /\ \A k \in 1..Len(history) :
          (history[k].status = 429 /\ k - 1 < maxRetries - 1)
          => /\ Len(waitBases) >= k
             /\ waitBases[k] = Pow2(k - 1) * 1000
             /\ (k = Len(history) => fpc \in {"waiting", "fetching"})
    /\ (fpc = "waiting" /\ history[Len(history)].status = 429)
        => /\ Len(waitBases) = Len(history)
           /\ fi = Len(history) - 1
           /\ lastDelay >= Pow2(fi) * 1000
           /\ lastDelay < Pow2(fi) * 1000 + 1000
    /\ Len(waitBases) <= Len(history)

\* C3 witness: the scenario has run to its end.
C3_Witness ==
    /\ maxRetries = DefaultMaxRetries
    /\ history = Scenario429
    /\ fpc = "returned"
    /\ waitBases = <<1000, 2000, 4000>>

(***************************************************************************)
(* The vocabulary of the progress claims.                                  *)
(***************************************************************************)
\* the leaf units a course has in the catalog of app v
totalLeaves(v, course) == Len(LeafIds(v, course))

\* the leaves of the course whose id is in the course's stored list
completedLeaves(v, course, prog) ==
    Cardinality({id \in Range(LeafIds(v, course)) :
                    IsLeafCompleted(FindEntry(prog, course.id), id)})

\* a list of { courseId: string, completedModules: string[] }
IsEntry(x) ==
    /\ x.t = "object"
    /\ Prop(x, "courseId").t = "string"
    /\ IsArray(Prop(x, "completedModules"))
    /\ \A id \in Range(Prop(x, "completedModules").v) : id.t = "string"

WellFormed(prog) == IsArray(prog) /\ \A x \in Range(prog.v) : IsEntry(x)

\* the (courseId, set of completed ids) pairs of a well-formed collection
PairSet(prog) ==
    {<<Prop(x, "courseId").s, {id.s : id \in Range(Prop(x, "completedModules").v)}>> :
        x \in Range(prog.v)}

\* a stored text JSON.parse throws on
Unparsable(item) == item.present /\ item.text # <<>> /\ ~JSON_parse(item.text).ok

EmptyText == JSON_stringify(JArr(<<>>))

\* the page has been initialized and is up
Loaded == ~loading /\ ~crashed

\* C4 (Spec): the completed count shown for a course counts only stored ids
\* that are leaves of that course in the current catalog, and so never
\* exceeds the number of leaves.
C4_OrphanFiltering ==
    Loaded =>
      \A k \in 1..Len(SAP_COURSES(variant)) :
        LET course == SAP_COURSES(variant)[k]
            count == completedCount(FindEntry(progress, course.id))
        IN  /\ count = completedLeaves(variant, course, progress)
            /\ count <= totalLeaves(variant, course)

\* C5 (Spec): for every catalog course the completion ratio is a number in
\* [0, 1] (0 to 100 percent): 0 when no leaf of the course is completed, 1
\* when every leaf id is in the completed list, 0 when it has no leaves.
C5_RatioBounds ==
    Loaded =>
      \A k \in 1..Len(SAP_COURSES(variant)) :
        LET course == SAP_COURSES(variant)[k]
            entry == FindEntry(progress, course.id)
            ratio == completionRatio(variant, course, completedCount(entry))
            done == completedLeaves(variant, course, progress)
            total == totalLeaves(variant, course)
        IN  /\ ratio.kind = "number"
            /\ ratio.den > 0
            /\ 0 <= ratio.num
            /\ ratio.num <= 100 * ratio.den
            /\ (done = 0 => ratio.num = 0)
            /\ (total > 0 /\ done = total => ratio.num = 100 * ratio.den)
            /\ (total = 0 => ratio.num = 0)

\* C6 (Spec): a course is shown complete exactly when it has leaves and all
\* of them are completed, and its ratio is completedLeaves / totalLeaves
\* (4 of 5 leaves: 0.8 and not complete; 5 of 5: 1.0 and complete).
C6_CompleteIff ==
    Loaded =>
      \A k \in 1..Len(SAP_COURSES(variant)) :
        LET course == SAP_COURSES(variant)[k]
            count == completedCount(FindEntry(progress, course.id))
            ratio == completionRatio(variant, course, count)
            done == completedLeaves(variant, course, progress)
            total == totalLeaves(variant, course)
        IN  /\ isCourseCompleted(variant, course, count) <=> (total > 0 /\ done = total)
            /\ (total > 0 => ratio.num * total = 100 * done * ratio.den)

\* C7 (Spec): when the text stored under sap_progress does not parse,
\* initialization throws nothing, leaves the collection empty and ends
\* loading, and the next write to sap_progress stores the empty collection
\* over the malformed text.
C7_CorruptionRecovery ==
    [][Unparsable(storage.prog) =>
         /\ (loading /\ ~loading') =>
               /\ progress' = JArr(<<>>)
               /\ ~crashed'
               /\ effectPending'
               /\ storage'.prog = storage.prog
         /\ (storage'.prog # storage.prog) =>
               /\ ~loading
               /\ progress = JArr(<<>>)
               /\ storage'.prog = Item(EmptyText)
         /\ ~loading => (progress = JArr(<<>>) /\ ~crashed /\ effectPending)]_vars

\* C7 witness: initialization is over with the malformed text still stored,
\* the collection empty and the write due.
C7_Witness ==
    /\ Unparsable(storage.prog)
    /\ Loaded
    /\ progress = JArr(<<>>)
    /\ effectPending

\* C8 (Spec): whatever text is stored under sap_progress, after
\* initialization the collection is a well-formed list of entries, no render
\* has thrown, and every read and every toggle on it succeeds.
C8_NeverBlocksLoading ==
    ~loading =>
      /\ ~crashed
      /\ WellFormed(progress)
      /\ \A k \in 1..Len(SAP_COURSES(variant)) :
            LET course == SAP_COURSES(variant)[k] IN
            /\ ~DetailThrows(variant, progress, course)
            /\ \A id \in Range(LeafIds(variant, course)), b \in BOOLEAN :
                  updateProgress(progress, course.id, id, b) # JThrow

\* C9 (FairSpec): after initialization every updateProgress call, one that
\* changes nothing included, makes a write of the whole collection due; the
\* write happens, before the next call; and whenever no write is due the
\* stored text decodes to exactly the collection in memory.
C9_WriteThrough ==
    /\ [][(nToggles' # nToggles /\ ~crashed') => (~effectPending /\ effectPending')]_vars
    /\ [][(effectPending /\ ~effectPending' /\ ~loading) =>
             /\ nWrites' = nWrites + 1
             /\ written' = progress
             /\ storage'.prog = Item(JSON_stringify(progress))
             /\ progress' = progress]_vars
    /\ [](effectPending => <>(~effectPending))
    /\ []((Loaded /\ ~effectPending) =>
             /\ storage.prog.present
             /\ JSON_parse(storage.prog.text) = [ok |-> TRUE, val |-> progress])

\* C9 witness: two calls were made, the second changed nothing, and both
\* were written.
C9_Witness ==
    /\ Loaded
    /\ ~effectPending
    /\ nToggles = 2
    /\ nWrites = 3
    /\ nReloads = 0
    /\ written = progress
    /\ progress = JArr(<<ProgressEntry("mm", <<>>)>>)

\* C10 (Spec): a well-formed collection written to sap_progress and loaded
\* again by the next initialization gives the same (courseId, set of
\* completed ids) pairs.
C10_RoundTrip ==
    [][(loading /\ ~loading' /\ written # JUndefined /\ WellFormed(written)) =>
         /\ WellFormed(progress')
         /\ PairSet(progress') = PairSet(written)]_vars

\* C10 witness: a later page load has read back a collection with two
\* completed ids that this run wrote.
C10_Witness ==
    /\ nReloads = 1
    /\ Loaded
    /\ written # JUndefined
    /\ progress = written
    /\ \E x \in Range(progress.v) : Len(Prop(x, "completedModules").v) >= 2

\* the courseIds that have an entry in a collection
CourseIdSet(prog) == {Prop(x, "courseId") : x \in Range(prog.v)}

\* the completed list of the course's entry, <<>> when it has no entry
CompletedOf(prog, courseId) ==
    IF FindEntry(prog, courseId) = JUndefined THEN <<>>
    ELSE Prop(FindEntry(prog, courseId), "completedModules").v

\* C11 (SpecCalls): no updateProgress call removes a course entry.  Every
\* call keeps every entry's courseId and position, and the called course has
\* an entry afterwards; updateProgress("mm", "mm-1", true) followed by
\* updateProgress("mm", "mm-1", false), on a collection where mm had nothing
\* completed, leaves an entry for mm with an empty list and a count of 0.
C11_EntriesNeverRemoved ==
    [][lastCall'.n # lastCall.n =>
         /\ IsArray(progress')
         /\ Len(progress'.v) >= Len(progress.v)
         /\ \A k \in 1..Len(progress.v) :
               Prop(progress'.v[k], "courseId") = Prop(progress.v[k], "courseId")
         /\ CourseIdSet(progress) \subseteq CourseIdSet(progress')
         /\ JStr(lastCall'.courseId) \in CourseIdSet(progress')
         /\ (/\ lastCall.n >= 1
             /\ lastCall.courseId = "mm" /\ lastCall.chapterId = "mm-1"
             /\ lastCall.isCompleted
             /\ CompletedOf(lastCall.before, "mm") = <<>>
             /\ lastCall'.courseId = "mm" /\ lastCall'.chapterId = "mm-1"
             /\ ~lastCall'.isCompleted)
            => /\ FindEntry(progress', "mm") # JUndefined
               /\ Prop(FindEntry(progress', "mm"), "completedModules") = JArr(<<>>)
               /\ completedCount(FindEntry(progress', "mm")) = 0]_vars

\* C11 witness: the second call took mm-1 back from a collection in which it
\* was the only completed id of mm, and the entry of mm is still there, empty.
C11_Witness ==
    /\ lastCall.n = 2
    /\ lastCall.courseId = "mm" /\ lastCall.chapterId = "mm-1"
    /\ ~lastCall.isCompleted
    /\ lastCall.before = JArr(<<ProgressEntry("mm", <<"mm-1">>)>>)
    /\ progress = JArr(<<ProgressEntry("mm", <<>>)>>)

\* courseIds pairwise distinct, and no id twice in a completed list
NoRepeats(items) == \A j, k \in 1..Len(items) : items[j] = items[k] => j = k

SetLike(prog) ==
    /\ IsArray(prog)
    /\ NoRepeats([k \in 1..Len(prog.v) |-> Prop(prog.v[k], "courseId")])
    /\ \A x \in Range(prog.v) : NoRepeats(Prop(x, "completedModules").v)

\* how often id occurs in the completed lists of the entries of courseId
Occurrences(prog, courseId, id) ==
    Cardinality({<<j, k>> \in (1..Len(prog.v)) \X (1..(MaxIds + MaxCalls + 1)) :
                    /\ Prop(prog.v[j], "courseId") = JStr(courseId)
                    /\ k <= Len(Prop(prog.v[j], "completedModules").v)
                    /\ Prop(prog.v[j], "completedModules").v[k] = JStr(id)})

\* C12 (SpecCalls): set semantics.  A call on a collection with pairwise
\* distinct courseIds and no repeated completed id gives such a collection
\* again; with isCompleted = true the id is in the course's list exactly
\* once afterwards, and the list is unchanged when it was there already;
\* with isCompleted = false no occurrence of the id is left.
C12_SetSemantics ==
    [][(lastCall'.n # lastCall.n /\ SetLike(progress)) =>
         /\ SetLike(progress')
         /\ lastCall'.isCompleted =>
               /\ Occurrences(progress', lastCall'.courseId, lastCall'.chapterId) = 1
               /\ Includes(CompletedOf(progress, lastCall'.courseId), lastCall'.chapterId)
                    => CompletedOf(progress', lastCall'.courseId)
                         = CompletedOf(progress, lastCall'.courseId)
         /\ ~lastCall'.isCompleted =>
               Occurrences(progress', lastCall'.courseId, lastCall'.chapterId) = 0]_vars

\* C12 witness: two calls on a set-like collection, the second marking done
\* an id that was in the list already.
C12_Witness ==
    /\ lastCall.n = 2
    /\ lastCall.isCompleted
    /\ SetLike(lastCall.before)
    /\ Includes(CompletedOf(lastCall.before, lastCall.courseId), lastCall.chapterId)
    /\ Len(CompletedOf(progress, lastCall.courseId)) = 2
    /\ SetLike(progress)

\* the error an attempt that does not return ends with
ErrorOf(o) ==
    IF o.net THEN "NetworkError"
    ELSE IF ~o.parses THEN "SyntaxError"
    ELSE "ApiError"

Terminated == fpc \in {"returned", "raised"}

\* C13 (FairSpecFetch): bounded retry.  For every maxRetries >= 1 and every
\* sequence of outcomes the call issues at most maxRetries fetches and
\* terminates; it returns the parsed body of a successful last fetch or
\* raises the error of its last attempt, and every wait is followed by
\* another fetch: none follows the final attempt.
C13_BoundedRetry ==
    /\ [](Len(history) <= maxRetries)
    /\ [](Len(waitBases) <= Len(history))
    /\ [](fpc = "fetching" => Len(waitBases) = Len(history))
    /\ [](Terminated =>
            /\ history # <<>>
            /\ Len(waitBases) = Len(history) - 1)
    /\ [](fpc = "returned" =>
            /\ fresult = "body"
            /\ Ok(history[Len(history)])
            /\ history[Len(history)].parses)
    /\ [](fpc = "raised" =>
            /\ fresult = ErrorOf(history[Len(history)])
            /\ ~(Ok(history[Len(history)]) /\ history[Len(history)].parses))
    /\ <>Terminated

\* C13 witness: all maxRetries = 3 attempts failed, each in another way, and
\* the error of the last one was raised after two waits.
C13_Witness ==
    /\ maxRetries = 3
    /\ history = <<Response(429, TRUE), NetworkError, Response(404, FALSE)>>
    /\ fpc = "raised"
    /\ fresult = "SyntaxError"
    /\ Len(waitBases) = 2

\* C14 (FairSpecFetch): transport failures.  A fetch that rejects on attempt
\* i < maxRetries - 1 raises nothing: exactly one wait of a delay in
\* [2^i * 1000, 2^i * 1000 + 1000) starts, and when it is over attempt i + 1
\* is made; a fetch that rejects on attempt maxRetries - 1 raises that
\* rejection to the caller, with no wait.
C14_TransportFailure ==
    /\ [][(Len(history') = Len(history) + 1 /\ history'[Len(history')].net) =>
            IF fi < maxRetries - 1
            THEN /\ fpc' = "waiting"
                 /\ fresult' = "none"
                 /\ waitBases' = Append(waitBases, Pow2(fi) * 1000)
                 /\ lastDelay' >= Pow2(fi) * 1000
                 /\ lastDelay' < Pow2(fi) * 1000 + 1000
                 /\ fi' = fi
            ELSE /\ fpc' = "raised"
                 /\ fresult' = "NetworkError"
                 /\ waitBases' = waitBases]_vars
    /\ [][fpc = "waiting" =>
            /\ fpc' = "fetching"
            /\ fi' = fi + 1
            /\ history' = history
            /\ waitBases' = waitBases]_vars
    /\ [](fpc = "waiting" => <>(fpc = "fetching"))
    /\ []((fpc = "fetching" /\ fi > 0) => Len(history) = fi)

\* C14 witness: the fetch rejected on both attempts of a call with
\* maxRetries = 2; one wait of base 1000 lay between them and the second
\* rejection was raised.
C14_Witness ==
    /\ maxRetries = 2
    /\ history = <<NetworkError, NetworkError>>
    /\ waitBases = <<1000>>
    /\ fpc = "raised"
    /\ fresult = "NetworkError"

\* every one of the maxRetries attempts got answer o, and the call is over
ExhaustedBy(o) ==
    /\ fpc = "raised"
    /\ Len(history) = maxRetries
    /\ \A k \in 1..Len(history) : history[k] = o

\* C15 (SpecFetch): when all maxRetries attempts failed, with a 429 each or
\* with a rejected fetch each, the call raises the exhaustion error, which
\* is the error neither of an API-reported failure nor of one rejected fetch.
C15_ExhaustionDistinct ==
    (ExhaustedBy(Response(429, TRUE)) \/ ExhaustedBy(NetworkError))
    => (fresult = "MaxRetriesError" /\ fresult \notin {"ApiError", "NetworkError"})

\* C16 (SpecRequest): with an empty API key every entry point shows the
\* configuration error and is done without a single fetch: the request
\* wrapper is never entered.
C16_MissingCredential ==
    (apiKey = "" /\ tpc # "idle")
    => /\ tpc = "done"
       /\ response = ConfigMessage
       /\ history = <<>>
       /\ fpc = "idle"

\* C17 (SpecStorageFault): a getItem or setItem that throws during
\* initialization or during a persistence write is caught inside the store:
\* the step neither takes the page down nor leaves it loading, and the
\* collection in memory is kept.
C17_StorageFailuresCaught ==
    [][(InitEffectStorageThrows \/ PersistEffectStorageThrows) =>
          /\ ~crashed'
          /\ ~loading'
          /\ progress' = progress]_vars

\* C18 (SpecCard): in the module app the ratio and the complete flag of a
\* course follow the number of modules the course lists, whatever
\* totalModules it declares.
C18_ComputedDenominator ==
    (card.shown /\ variant = "module" /\ Len(card.course.modules) > 0)
    => /\ card.ratio.kind = "number"
       /\ card.ratio.den > 0
       /\ card.ratio.num * Len(card.course.modules) = 100 * card.count * card.ratio.den
       /\ card.isCompleted <=> (card.count = Len(card.course.modules))

\* the catalog courses that have leaves, all of them completed
CompleteCourses(v, prog) ==
    {k \in 1..Len(SAP_COURSES(v)) :
        /\ totalLeaves(v, SAP_COURSES(v)[k]) > 0
        /\ completedLeaves(v, SAP_COURSES(v)[k], prog)
             = totalLeaves(v, SAP_COURSES(v)[k])}

\* C19 (Spec): for every collection initialization can load, the overall
\* completion ratio is the number of catalog courses that are complete
\* divided by the number of catalog courses, and lies in [0, 1].
C19_OverallRatio ==
    Loaded =>
      LET ratio == overallCompletionRatio(variant, progress)
          n == Len(SAP_COURSES(variant))
      IN  /\ ratio.kind = "number"
          /\ ratio.den > 0
          /\ 0 <= ratio.num
          /\ ratio.num <= 100 * ratio.den
          /\ ratio.num * n = 100 * Cardinality(CompleteCourses(variant, progress)) * ratio.den

\* C19, without the effect of ids that are not leaves (C4): the entries are
\* four copies of the complete entry of mm, and the ratio shown is above 1
C19_DuplicateEntries ==
    (Loaded /\ variant = "module" /\ nToggles = 0
       /\ storage.prog = Item(DuplicateEntriesText))
    => overallCompletionRatio(variant, progress).num
         <= 100 * overallCompletionRatio(variant, progress).den

\* C20 (Spec): the user id is stable.  A value stored under sap_user_id is
\* never changed by any page load, in either app, or by any toggle; a value
\* is stored only by an initialization that found none, and is then a
\* freshly drawn one; after initialization the userId in memory is the
\* stored value.
C20_StableUserId ==
    /\ [][(storage.uid.present /\ storage.uid.text # "") =>
             storage'.uid = storage.uid]_vars
    /\ [][storage'.uid # storage.uid =>
             /\ loading /\ ~loading'
             /\ ~storage.uid.present
             /\ storage'.uid.present
             /\ storage'.uid.text \in UUIDs]_vars
    /\ [](~loading => (storage.uid.present /\ userId = storage.uid.text))
    /\ [](loading => userId = "Initializing...")

\* C20 witness: the first page load found no id and drew uuid-b; a toggle
\* and a second page load later it is still the id stored and in memory.
C20_Witness ==
    /\ nReloads = 1
    /\ nToggles >= 1
    /\ ~loading
    /\ storage.uid = Item("uuid-b")
    /\ userId = "uuid-b"

\* the calls of a queue made one after the other, each on the result of the
\* one before
RECURSIVE OneAfterTheOther(_, _)
OneAfterTheOther(state, q) ==
    IF q = <<>> THEN state
    ELSE OneAfterTheOther(updateProgress(state, Head(q).courseId,
                                         Head(q).chapterId,
                                         Head(q).isCompleted), Tail(q))

\* C21 (SpecBatch): the calls of updateProgress made before a render leave,
\* at that render, the collection that results from making them one after
\* the other, each on the result of the one before; with two calls, the
\* second applied to the result of the first, never to the collection the
\* first one started from.
C21_NoLostUpdate ==
    [][(queue # <<>> /\ queue' = <<>>)
       => /\ progress' = OneAfterTheOther(progress, queue)
          /\ Len(queue) = 2
             => progress' =
                   updateProgress(updateProgress(progress, queue[1].courseId,
                                                 queue[1].chapterId,
                                                 queue[1].isCompleted),
                                  queue[2].courseId, queue[2].chapterId,
                                  queue[2].isCompleted)]_vars

\* two calls were made before one render, and the second one computed from
\* the collection the batch began with would have lost the first
C21_Witness ==
    /\ lastCall.n = 2
    /\ queue = <<>>
    /\ lastCall.once # lastCall.before
    /\ progress = updateProgress(lastCall.once, lastCall.courseId,
                                 lastCall.chapterId, lastCall.isCompleted)
    /\ progress # updateProgress(lastCall.before, lastCall.courseId,
                                 lastCall.chapterId, lastCall.isCompleted)

\* the tab whose setItem ran last, and the other one
LastWriter == tabs.tab[tabs.lastWriter]
OtherTab == tabs.tab[3 - tabs.lastWriter]

\* leaf ids a tab has done, in a course, that are neither in the text it
\* loaded nor touched by the last writer
OwnToggles(tb, courseId) ==
    {id \in Range(CompletedOf(tb.progress, courseId)) :
        /\ id \notin Range(CompletedOf(LoadedProgress(tb.loadedText, JArr(<<>>)),
                                       courseId))
        /\ \A leafId \in LastWriter.touched : id # JStr(leafId)}

\* C22 (SpecTabs): once the tab that wrote last has no write due, the stored
\* text is the text of exactly its in-memory collection; and when both tabs
\* were initialized from the same stored text, a leaf the other tab marked
\* done, which was not in that text and which the last writer never toggled,
\* is not in storage.
C22_LastWriteWins ==
    (tabs.lastWriter # 0 /\ ~LastWriter.effectPending)
    => /\ storage.prog = Item(JSON_stringify(LastWriter.progress))
       /\ JSON_parse(storage.prog.text).ok
       /\ JSON_parse(storage.prog.text).val = LastWriter.progress
       /\ (~OtherTab.loading /\ OtherTab.loadedText = LastWriter.loadedText)
          => \A course \in Range(SAP_COURSES("chapter")) :
                \A id \in OwnToggles(OtherTab, course.id) :
                   id \notin Range(CompletedOf(JSON_parse(storage.prog.text).val,
                                               course.id))

\* both tabs loaded the same text, each marked a leaf of its own done and
\* wrote it; storage holds the last writer's leaf and not the other tab's
C22_Witness ==
    /\ tabs.lastWriter # 0
    /\ ~LastWriter.effectPending
    /\ ~OtherTab.effectPending
    /\ ~OtherTab.loading
    /\ OtherTab.loadedText = LastWriter.loadedText
    /\ OtherTab.touched # {}
    /\ LastWriter.touched # {}
    /\ \E course \in Range(SAP_COURSES("chapter")) :
          /\ OwnToggles(OtherTab, course.id) # {}
          /\ Range(CompletedOf(LastWriter.progress, course.id)) # {}

\* C23 (SpecAssist): when handleSubmit sends its text request, the audio
\* element is paused and isSpeaking is false, whatever was playing or
\* announced when the form was submitted.
C23_SubmitSilences ==
    tutor.atSend.n > 0 => (~tutor.atSend.playing /\ ~tutor.atSend.isSpeaking)

\* a question was submitted while audio was playing
C23_Witness ==
    /\ tutor.loading
    /\ tutor.atSend.n = tutor.nSubmits
    /\ tutor.atSend.wasPlaying
    /\ tutor.audio.paused

\* a run of the tutor or of the e-book view is over
TutorSettled == ~tutor.loading /\ tutor.response # NoText
EbookSettled == ~ebook.loading /\ (ebook.ebookContent # "" \/ ebook.error # JNull)

\* C24 (FairSpecAssist): every submission to the tutor and every e-book
\* generation settles: whether the request returns a body or raises, the
\* loading flag goes back to false, at that moment a response text or an
\* error message is set, and no error escapes the handler.
C24_Settles ==
    /\ [](~tutor.unhandled /\ ~ebook.unhandled)
    /\ [][(tutor.loading /\ ~tutor'.loading) => TutorSettled']_vars
    /\ [][(ebook.loading /\ ~ebook'.loading) => EbookSettled']_vars
    /\ tutor.loading ~> TutorSettled
    /\ ebook.loading ~> EbookSettled

\* a submission ended in the catch block, a generation in its own, and a
\* second generation returned content
C24_Witness ==
    /\ tutor.nSubmits = MaxSubmits
    /\ tutor.response = ConnectText
    /\ ~tutor.loading
    /\ ebook.nCalls = 2
    /\ ebook.pc = "settled"
    /\ ebook.ebookContent = AnswerText

\* C26 (SpecAssist): while the audio element is playing, what it plays is
\* the speech of the response on display.
C26_AudioNeverStale == ~tutor.audio.paused => tutor.audio.src = tutor.response

\* C26, for answers only: audio of the answer to an earlier submission is
\* not playing once a later submission has been made.
C26_SupersededSilent ==
    (~tutor.audio.paused /\ tutor.audio.src.n > 0)
    => tutor.audio.src.n = tutor.nSubmits

\* C27 (SpecAssist): while the audio element is playing, isSpeaking is true.
C27_SpeakingTracksPlayback == ~tutor.audio.paused => tutor.isSpeaking

\* what an app shows for a course: the completed count, the ratio and the
\* complete flag
ShownFor(v, prog, course) ==
    LET count == completedCount(FindEntry(prog, course.id))
    IN  [count |-> count,
         ratio |-> completionRatio(v, course, count),
         isCompleted |-> isCourseCompleted(v, course, count)]

\* the collection an app loads from what was stored when the session began
BaselineProgress == LoadedProgress(baseline.prog, JArr(<<>>))

\* C25 (Spec): when leaves were toggled in one app and the other app is then
\* opened, the other app shows for every course of its catalog the count,
\* ratio and complete flag it showed for what was stored before.
C25_NoInterference ==
    [][(/\ loading /\ ~loading'
        /\ nReloads = 1
        /\ variant # baseline.variant
        /\ nToggles > 0
        /\ ~RenderThrows(variant, BaselineProgress)
        /\ ~crashed')
       => \A k \in 1..Len(SAP_COURSES(variant)) :
             ShownFor(variant, progress', SAP_COURSES(variant)[k])
             = ShownFor(variant, BaselineProgress, SAP_COURSES(variant)[k])]_vars

\* C25, from an empty browser: with nothing stored before the first app was
\* used, the other app shows no completed leaf in any course.
C25_FreshStorage ==
    (/\ ~baseline.prog.present
     /\ nReloads = 1
     /\ variant # baseline.variant
     /\ ~loading
     /\ ~crashed)
    => \A k \in 1..Len(SAP_COURSES(variant)) :
          completedCount(FindEntry(progress, SAP_COURSES(variant)[k].id)) = 0

\* every chapter id of a module is in the completed list of an entry
AllChaptersDone(entry, module) ==
    \A k \in 1..Len(module.chapters) :
       /\ entry # JUndefined
       /\ JStr(module.chapters[k]) \in Range(Prop(entry, "completedModules").v)

\* C28 (SpecChapters): in the chapter app, on a collection that began with
\* chapter ids of the respective course, none twice, and was changed by
\* toggles of catalog chapters, a module is shown complete exactly when all
\* its chapter ids are in the completed list, and a course is shown complete
\* exactly when every one of its modules is.
C28_CourseIffModules ==
    (~loading /\ ~crashed)
    => \A c \in 1..Len(ChapterCatalog) :
          LET course == ChapterCatalog[c]
              entry == FindEntry(progress, course.id)
          IN  /\ \A m \in 1..Len(course.modules) :
                    isModuleCompleted(entry, course.modules[m])
                    <=> AllChaptersDone(entry, course.modules[m])
              /\ isCourseCompleted("chapter", course, completedCount(entry))
                 <=> \A m \in 1..Len(course.modules) :
                        isModuleCompleted(entry, course.modules[m])

\* the last chapter of a course was ticked: the course is shown complete,
\* which it was not when the session began
C28_Witness ==
    /\ ~loading
    /\ ~crashed
    /\ nToggles > 0
    /\ \E c \in 1..Len(ChapterCatalog) :
          LET course == ChapterCatalog[c] IN
          /\ isCourseCompleted("chapter", course,
                               completedCount(FindEntry(progress, course.id)))
          /\ \A m \in 1..Len(course.modules) :
                isModuleCompleted(FindEntry(progress, course.id), course.modules[m])
          /\ ~isCourseCompleted("chapter", course,
                                completedCount(FindEntry(BaselineProgress, course.id)))

\* C29 (Spec): sap_progress is not written while loading is true, so what
\* was stored before startup is still there when the first effect reads it;
\* a write stores the collection in memory, and the first write of the
\* session stores the collection loaded from what was stored before ([] when
\* that did not parse, or when nothing was stored).
C29_NoWriteWhileLoading ==
    [][/\ loading => storage'.prog = storage.prog
       /\ (loading /\ ~loading')
          => progress' = LoadedProgress(storage.prog, JArr(<<>>))
       /\ storage'.prog # storage.prog
          => (~loading /\ storage'.prog = Item(JSON_stringify(progress)))
       /\ (nWrites = 0 /\ nWrites' = 1)
          => /\ storage.prog = baseline.prog
             /\ storage'.prog = Item(JSON_stringify(BaselineProgress))]_vars

\* the first write is over: a collection with a completed leaf was stored
\* before startup and is what the write stored
C29_Witness ==
    /\ nWrites = 1
    /\ nToggles = 0
    /\ baseline.prog.present
    /\ BaselineProgress # JArr(<<>>)
    /\ CompletedOf(BaselineProgress, "mm") # <<>>
    /\ written = BaselineProgress
    /\ storage.prog = Item(JSON_stringify(BaselineProgress))

\* the ids of a completed list other than one leaf id, in order
OtherIds(items, leafId) == SelectSeq(items, LAMBDA x : x # JStr(leafId))

\* C30 (SpecCalls): a call updateProgress(c, l, b) leaves the user identity
\* alone and changes, in the collection, at most the first entry of course c
\* (appended at the end when there is none), and in it at most the
\* membership of l: every other entry is the same value at the same place,
\* and the other ids of the entry's list are the same, in the same order.
C30_Frame ==
    [][LET c == lastCall'.courseId
           l == lastCall'.chapterId
           k == FindIndex(progress.v, c)
       IN  /\ userId' = userId
           /\ storage' = storage
           /\ IsArray(progress')
           /\ IF k = 0
              THEN /\ Len(progress'.v) = Len(progress.v) + 1
                   /\ SubSeq(progress'.v, 1, Len(progress.v)) = progress.v
                   /\ Prop(progress'.v[Len(progress'.v)], "courseId") = JStr(c)
                   /\ OtherIds(Prop(progress'.v[Len(progress'.v)],
                                    "completedModules").v, l) = <<>>
              ELSE /\ Len(progress'.v) = Len(progress.v)
                   /\ \A j \in 1..Len(progress.v) :
                         j # k => progress'.v[j] = progress.v[j]
                   /\ Prop(progress'.v[k], "courseId") = JStr(c)
                   /\ OtherIds(Prop(progress'.v[k], "completedModules").v, l)
                      = OtherIds(Prop(progress.v[k], "completedModules").v, l)]_vars

\* a call changed the list of one of two entries, which kept another id
C30_Witness ==
    /\ lastCall.n > 0
    /\ Len(progress.v) = 2
    /\ Len(lastCall.before.v) = 2
    /\ progress # lastCall.before
    /\ \E k \in 1..2 :
          /\ progress.v[k] # lastCall.before.v[k]
          /\ OtherIds(Prop(progress.v[k], "completedModules").v,
                      lastCall.chapterId) # <<>>

====
